---------------------------- MODULE Spec2Model ----------------------------
(***************************************************************************)
(* Number dispenser: the dispenser engine (basic, segment and optimized    *)
(* segment dispensers), the file storage behind the persistence hook and   *)
(* the server's registry with its hset / get handlers, start-up load and   *)
(* crash.  One dispenser name is modelled; identifiers are sequences of    *)
(* decimal digits, i.e. the strings fmt.Sprintf produces.                  *)
(***************************************************************************)
EXTENDS Integers, Sequences, FiniteSets, TLC

(* ---------------------------- bounds ---------------------------------- *)
\* Segment size handed to the segment dispensers (the factory passes 1000,
\* the tests 100); scaled down so that rollovers happen within a few gets.
SegmentSize == 2
\* Number of get requests of a run with a crash.
MaxGets == 3
\* Number of dispenser instances one process life may create.
MaxInst == 2
\* Number of prefetch goroutines that may be waiting to run at once.
MaxSpawn == 1
\* Number of crashes in a run.
MaxCrash == 1
\* Number of hset requests a run may start.
MaxHSets == 2

(* ------------------------ program constants --------------------------- *)
\* refill threshold 0.1 passed by the factory, as a fraction
ThresholdNum == 1
ThresholdDen == 10

TypeNumericRandom == 1
TypeNumericIncremental == 2
TypeAlphanumericRandom == 3
TypeSnowflake == 4
TypeUUID == 5

IncrModeFixed == "fixed"
IncrModeSequence == "sequence"

StrategyMemory == "memory"
StrategyPreBase == "pre-base"
StrategyPreCheckpoint == "pre-checkpoint"
StrategyElegantClose == "elegant_close"
StrategyPreClose == "pre_close"

ValidPersistenceStrategies ==
  {StrategyMemory, StrategyPreBase, StrategyPreCheckpoint,
   StrategyElegantClose, StrategyPreClose}

ErrNumberExhausted == "number range exhausted"
ErrInvalidType == "invalid dispenser type"
ErrInvalidLength == "invalid length"
ErrInvalidStarting == "invalid starting value"
ErrInvalidStep == "invalid step value"
ErrInvalidMachine == "invalid machine id"
ErrInvalidCharset == "invalid charset"
ErrInvalidFormat == "invalid format"
ErrSegmentOnly == "segment allocation only supported for incremental type"
ErrDisk == "disk write failed"
OK == "ok"

(* ------------------------- pure helpers ------------------------------- *)
RECURSIVE pow10(_)
pow10(n) == IF n <= 0 THEN 1 ELSE 10 * pow10(n - 1)

RECURSIVE Digits(_)
\* decimal digits of a non-negative integer, most significant first (%d)
Digits(n) == IF n < 10 THEN <<n>> ELSE Digits(n \div 10) \o <<n % 10>>

RECURSIVE PadZero(_, _)
PadZero(s, w) == IF Len(s) >= w THEN s ELSE PadZero(<<0>> \o s, w)

\* fmt.Sprintf("%d", n)
FormatSeq(n) == Digits(n)
\* fmt.Sprintf("%0*d", length, n)
FormatFixed(length, n) == PadZero(Digits(n), length)

Max(a, b) == IF a >= b THEN a ELSE b

(* --------------------------- configuration ---------------------------- *)
\* dispenser.Config; the zero value of a field is 0 or "".
ZeroConfig ==
  [Type |-> 0, Length |-> 0, Starting |-> 0, Step |-> 0,
   MachineID |-> 0, DatacenterID |-> 0, IncrMode |-> "", Charset |-> "",
   UUIDFormat |-> "", AutoDisk |-> ""]

validateConfig(cfg) ==
  IF cfg.Type < TypeNumericRandom \/ cfg.Type > TypeUUID THEN ErrInvalidType
  ELSE IF cfg.Type = TypeNumericRandom THEN
         (IF cfg.Length <= 0 \/ cfg.Length > 18 THEN ErrInvalidLength ELSE OK)
  ELSE IF cfg.Type = TypeNumericIncremental THEN
         (IF cfg.IncrMode = IncrModeFixed /\ (cfg.Length <= 0 \/ cfg.Length > 18)
            THEN ErrInvalidLength
          ELSE IF cfg.IncrMode = IncrModeFixed /\ cfg.Starting >= pow10(cfg.Length)
            THEN ErrInvalidStarting
          ELSE IF cfg.Starting < 0 THEN ErrInvalidStarting
          ELSE IF cfg.Step < 0 THEN ErrInvalidStep
          ELSE OK)
  ELSE IF cfg.Type = TypeAlphanumericRandom THEN
         (IF cfg.Length <= 0 \/ cfg.Length > 64 THEN ErrInvalidLength
          ELSE IF cfg.Charset \notin {"", "hex", "base62"} THEN ErrInvalidCharset
          ELSE OK)
  ELSE IF cfg.Type = TypeSnowflake THEN
         (IF cfg.MachineID < 0 \/ cfg.MachineID > 31 THEN ErrInvalidMachine
          ELSE IF cfg.DatacenterID < 0 \/ cfg.DatacenterID > 31 THEN ErrInvalidMachine
          ELSE OK)
  ELSE (IF cfg.UUIDFormat \notin {"", "standard", "compact"} THEN ErrInvalidFormat
        ELSE OK)

(* ----------------------------- storage -------------------------------- *)
\* FileStorage for the one modelled name: data is the in-memory map entry,
\* disk the entry in dispensers.json.
NoEntry == [present |-> FALSE, Config |-> ZeroConfig, Current |-> 0]
Entry(cfg, cur) == [present |-> TRUE, Config |-> cfg, Current |-> cur]

\* json.Marshal of a Config: every field but type is tagged omitempty and
\* is left out when it has its zero value
MarshalConfig(cfg) ==
  [k \in {f \in DOMAIN cfg : f = "Type" \/ cfg[f] # ZeroConfig[f]} |-> cfg[k]]

\* json.Unmarshal into a Config: a field without a key keeps its zero value
UnmarshalConfig(m) ==
  [k \in DOMAIN ZeroConfig |-> IF k \in DOMAIN m THEN m[k] ELSE ZeroConfig[k]]

\* the object written for the map: its (only) key is there when the name
\* has an entry
MarshalData(e) ==
  IF e.present
    THEN [present |-> TRUE, config |-> MarshalConfig(e.Config), current |-> e.Current]
  ELSE [present |-> FALSE, config |-> MarshalConfig(ZeroConfig), current |-> 0]

UnmarshalData(j) ==
  IF j.present THEN Entry(UnmarshalConfig(j.config), j.current) ELSE NoEntry

\* hist is a history field: saved is the entry of the last operation on the
\* name when that was a successful Save (NoEntry otherwise), flushed tells
\* that a successful Flush has followed it
NoHist == [saved |-> NoEntry, flushed |-> FALSE]

\* disk is kept as the entry that loadFromDisk reads from dispensers.json
NewFileStorage(disk, autoSave) ==
  [data |-> disk, disk |-> disk, dirty |-> FALSE, autoSave |-> autoSave,
   hist |-> NoHist]

\* a saveToDisk that clears the dirty flag without replacing the file
saveToDisk_NoRename(fs, ok) ==
  IF ok THEN [fs |-> [fs EXCEPT !.dirty = FALSE], err |-> OK]
  ELSE [fs |-> fs, err |-> ErrDisk]

\* saveToDisk: ok is the outcome of the write and rename
saveToDisk(fs, ok) ==
  IF ok THEN [fs |-> [fs EXCEPT !.disk = UnmarshalData(MarshalData(fs.data)),
                                !.dirty = FALSE],
              err |-> OK]
  ELSE [fs |-> fs, err |-> ErrDisk]

Save(fs, cfg, current, ok) ==
  LET fs1 == [fs EXCEPT !.data = Entry(cfg, current), !.dirty = TRUE]
      r == IF ~fs.autoSave THEN saveToDisk(fs1, ok) ELSE [fs |-> fs1, err |-> OK]
  IN [r EXCEPT !.fs.hist = IF r.err = OK
                             THEN [saved |-> Entry(cfg, current), flushed |-> FALSE]
                           ELSE NoHist]

Delete(fs, ok) ==
  LET fs1 == [fs EXCEPT !.data = NoEntry, !.dirty = TRUE]
      r == IF ~fs.autoSave THEN saveToDisk(fs1, ok) ELSE [fs |-> fs1, err |-> OK]
  IN [r EXCEPT !.fs.hist = NoHist]

Flush(fs, ok) ==
  LET r == IF ~fs.dirty THEN [fs |-> fs, err |-> OK] ELSE saveToDisk(fs, ok)
  IN [r EXCEPT !.fs.hist.flushed = @ \/ (r.err = OK /\ fs.hist.saved.present)]

(* ---------------------------- dispensers ------------------------------ *)
\* One record shape for the three implementations of NumberDispenser.
\* impl is "basic" (Dispenser), "segment" (SegmentDispenser) or "optimized"
\* (OptimizedSegmentDispenser); "none" marks an unused slot.  hookCfg is
\* the configuration captured by the factory's persistFunc closure.
\* maxHook is a history field: the largest argument for which this
\* instance's persistence hook has returned success (-1: none yet).
NoInst ==
  [impl |-> "none", config |-> ZeroConfig, hookCfg |-> ZeroConfig,
   current |-> 0, segmentEnd |-> 0,
   nextStart |-> 0, nextEnd |-> 0, nextReady |-> FALSE,
   lastPersisted |-> 0, generated |-> 0, wasted |-> 0,
   muHeld |-> FALSE, plActive |-> FALSE, plStart |-> 0, plEnd |-> 0,
   spawned |-> 0, ticks |-> "off", cpActive |-> FALSE, cpCur |-> 0,
   used |-> {}, seqCounter |-> 0, lastTimestamp |-> -1, maxHook |-> -1]

\* result of a dispenser operation: the instance afterwards, the storage
\* afterwards, the error (OK if none), the identifier and its number, and
\* the arguments with which the persistence hook returned success
Res(d, fs, err, id, num, hk) ==
  [d |-> d, fs |-> fs, err |-> err, id |-> id, num |-> num, hk |-> hk]

\* NewDispenser: defaults are written into the instance's own config
NewDispenser(cfg) ==
  LET c1 == IF cfg.Type = TypeNumericIncremental
              THEN [cfg EXCEPT
                      !.Step = IF cfg.Step = 0 THEN 1 ELSE cfg.Step,
                      !.IncrMode = IF cfg.IncrMode = ""
                                     THEN (IF cfg.Length > 0 THEN IncrModeFixed
                                           ELSE IncrModeSequence)
                                     ELSE cfg.IncrMode]
            ELSE IF cfg.Type = TypeAlphanumericRandom
              THEN [cfg EXCEPT !.Charset = IF cfg.Charset = "" THEN "hex" ELSE cfg.Charset]
            ELSE IF cfg.Type = TypeSnowflake
              THEN [cfg EXCEPT !.MachineID = IF cfg.MachineID = 0 THEN 1 ELSE cfg.MachineID]
            ELSE IF cfg.Type = TypeUUID
              THEN [cfg EXCEPT !.UUIDFormat = IF cfg.UUIDFormat = "" THEN "standard"
                                              ELSE cfg.UUIDFormat]
            ELSE cfg
  IN IF validateConfig(cfg) # OK THEN [err |-> validateConfig(cfg), d |-> NoInst]
     ELSE [err |-> OK,
           d |-> [NoInst EXCEPT !.impl = "basic", !.config = c1, !.hookCfg = cfg,
                                !.current = IF cfg.Type = TypeNumericIncremental
                                              THEN cfg.Starting ELSE 0]]

\* nextIncrFixed refusing the cap itself
nextIncrFixed_BelowCap(d) ==
  IF d.current >= pow10(d.config.Length) - 1
    THEN [d |-> d, err |-> ErrNumberExhausted, id |-> <<>>, num |-> -1]
  ELSE [d |-> [d EXCEPT !.current = d.current + d.config.Step,
                        !.generated = d.generated + 1],
        err |-> OK, id |-> FormatFixed(d.config.Length, d.current), num |-> d.current]

\* nextIncrFixed
nextIncrFixed(d) ==
  IF d.current > pow10(d.config.Length) - 1
    THEN [d |-> d, err |-> ErrNumberExhausted, id |-> <<>>, num |-> -1]
  ELSE [d |-> [d EXCEPT !.current = d.current + d.config.Step,
                        !.generated = d.generated + 1],
        err |-> OK, id |-> FormatFixed(d.config.Length, d.current), num |-> d.current]

\* nextIncrSequence advancing by one whatever the step
nextIncrSequence_ByOne(d) ==
  [d |-> [d EXCEPT !.current = d.current + 1,
                   !.generated = d.generated + 1],
   err |-> OK, id |-> FormatSeq(d.current), num |-> d.current]

\* nextIncrSequence
nextIncrSequence(d) ==
  [d |-> [d EXCEPT !.current = d.current + d.config.Step,
                   !.generated = d.generated + 1],
   err |-> OK, id |-> FormatSeq(d.current), num |-> d.current]

\* nextNumericIncremental
nextNumericIncremental(d) ==
  IF d.config.IncrMode = IncrModeFixed THEN nextIncrFixed(d) ELSE nextIncrSequence(d)

\* the persistence hook built by the factory for the segment dispensers:
\* f.persistFunc(name, cfg, val) = storage.Save with the captured cfg
persistFunc(d, fs, val, ok) == Save(fs, d.hookCfg, val, ok)

\* what a successful hook call leaves in the history field
Hooked(d, val) == [d EXCEPT !.maxHook = Max(d.maxHook, val)]

(* ---- the other kinds of the basic dispenser ---- *)
\* nextNumericRandom refusing at 80% of the space already
nextNumericRandom_AtEighty(d, draw) ==
  LET min == pow10(d.config.Length - 1)
      max == pow10(d.config.Length) - 1
      totalSpace == max - min + 1
      numStr == FormatFixed(d.config.Length, draw)
  IN IF Cardinality(d.used) * 10 >= 8 * totalSpace
       THEN [d |-> d, err |-> ErrNumberExhausted, id |-> <<>>, num |-> -1]
     ELSE IF draw = -1 \/ numStr \in d.used
       THEN [d |-> d, err |-> "failed to generate unique number after 100 retries",
             id |-> <<>>, num |-> -1]
     ELSE [d |-> [d EXCEPT !.used = d.used \cup {numStr},
                           !.generated = d.generated + 1],
           err |-> OK, id |-> numStr, num |-> draw]

\* nextNumericRandom.  draw is the number the generator ends on: a number
\* of the space, or -1 when all 100 draws hit used numbers.
nextNumericRandom(d, draw) ==
  LET min == pow10(d.config.Length - 1)
      max == pow10(d.config.Length) - 1
      totalSpace == max - min + 1
      numStr == FormatFixed(d.config.Length, draw)
  IN IF Cardinality(d.used) * 10 > 8 * totalSpace
       THEN [d |-> d, err |-> ErrNumberExhausted, id |-> <<>>, num |-> -1]
     ELSE IF draw = -1 \/ numStr \in d.used
       THEN [d |-> d, err |-> "failed to generate unique number after 100 retries",
             id |-> <<>>, num |-> -1]
     ELSE [d |-> [d EXCEPT !.used = d.used \cup {numStr},
                           !.generated = d.generated + 1],
           err |-> OK, id |-> numStr, num |-> draw]

\* nextAlphanumericRandom: every drawn character is the character draw
nextAlphanumericRandom(d, draw) ==
  [d |-> [d EXCEPT !.generated = d.generated + 1], err |-> OK,
   id |-> [i \in 1..d.config.Length |->
             IF d.config.Charset = "base62" THEN draw % 62 ELSE draw % 16],
   num |-> -1]

\* nextSnowflake.  Times are milliseconds since the snowflake epoch; ts is
\* the clock read on entry, ts2 the first reading past lastTimestamp that
\* ends the wait after a sequence wrap.
SeqMask == 4095
\* nextSnowflake without the wait after a wrap of the sequence counter
nextSnowflake_NoWait(d, ts, ts2) ==
  LET same == ts = d.lastTimestamp
      seq == IF same THEN (d.seqCounter + 1) % (SeqMask + 1) ELSE 0
      num == ts * 4194304 + (d.config.DatacenterID % 32) * 131072
               + (d.config.MachineID % 32) * 4096 + seq
  IN [d |-> [d EXCEPT !.seqCounter = seq, !.lastTimestamp = ts,
                      !.generated = d.generated + 1],
      err |-> OK, id |-> FormatSeq(num), num |-> num]

nextSnowflake(d, ts, ts2) ==
  LET same == ts = d.lastTimestamp
      seq == IF same THEN (d.seqCounter + 1) % (SeqMask + 1) ELSE 0
      t == IF same /\ seq = 0 THEN ts2 ELSE ts
      num == t * 4194304 + (d.config.DatacenterID % 32) * 131072
               + (d.config.MachineID % 32) * 4096 + seq
  IN [d |-> [d EXCEPT !.seqCounter = seq, !.lastTimestamp = t,
                      !.generated = d.generated + 1],
      err |-> OK, id |-> FormatSeq(num), num |-> num]

\* nextUUID: 32 hex digits, every random nibble being draw, with the
\* version and variant bits set; the standard form has dashes (16)
nextUUID(d, draw) ==
  LET hex == [i \in 1..32 |-> IF i = 13 THEN 4
                              ELSE IF i = 17 THEN 8 + (draw % 4)
                              ELSE draw % 16]
      std == SubSeq(hex, 1, 8) \o <<16>> \o SubSeq(hex, 9, 12) \o <<16>>
             \o SubSeq(hex, 13, 16) \o <<16>> \o SubSeq(hex, 17, 20) \o <<16>>
             \o SubSeq(hex, 21, 32)
  IN [d |-> [d EXCEPT !.generated = d.generated + 1], err |-> OK,
      id |-> IF d.config.UUIDFormat = "compact" THEN hex ELSE std, num |-> -1]

\* Dispenser.Next
BasicNext(d, draw, ts, ts2) ==
  CASE d.config.Type = TypeNumericRandom -> nextNumericRandom(d, draw)
    [] d.config.Type = TypeNumericIncremental -> nextNumericIncremental(d)
    [] d.config.Type = TypeAlphanumericRandom -> nextAlphanumericRandom(d, draw)
    [] d.config.Type = TypeSnowflake -> nextSnowflake(d, ts, ts2)
    [] d.config.Type = TypeUUID -> nextUUID(d, draw)
    [] OTHER -> [d |-> d, err |-> ErrInvalidType, id |-> <<>>, num |-> -1]

(* ---- segment dispensers ---- *)
\* The fixed-width test of the two allocateSegment functions.  The
\* optimized dispenser tests config.IncrMode; SegmentDispenser tests the
\* fixed-width incremental kind.
IsFixed(d) ==
  IF d.impl = "optimized" THEN d.config.IncrMode = IncrModeFixed
  ELSE d.config.Type = TypeNumericIncremental /\ d.config.IncrMode = IncrModeFixed

\* allocateSegment persisting the start of the new segment instead of its end
allocateSegment_PersistsStart(d, fs, start, ok) ==
  LET end0 == start + SegmentSize * d.config.Step
      maxValue == pow10(d.config.Length) - 1
      end == IF IsFixed(d) /\ end0 > maxValue THEN maxValue + 1 ELSE end0
      p == persistFunc(d, fs, start, ok)
  IN IF IsFixed(d) /\ start >= maxValue
       THEN Res(d, fs, ErrNumberExhausted, <<>>, -1, {})
     ELSE IF p.err # OK THEN Res(d, p.fs, p.err, <<>>, -1, {})
     ELSE Res([Hooked(d, start) EXCEPT
                 !.current = start, !.segmentEnd = end,
                 !.lastPersisted = IF d.impl = "optimized" THEN start
                                   ELSE d.lastPersisted],
              p.fs, OK, <<>>, -1, {start})

\* allocateSegment (both segment dispensers)
allocateSegment(d, fs, start, ok) ==
  LET end0 == start + SegmentSize * d.config.Step
      maxValue == pow10(d.config.Length) - 1
      end == IF IsFixed(d) /\ end0 > maxValue THEN maxValue + 1 ELSE end0
      p == persistFunc(d, fs, end, ok)
  IN IF IsFixed(d) /\ start >= maxValue
       THEN Res(d, fs, ErrNumberExhausted, <<>>, -1, {})
     ELSE IF p.err # OK THEN Res(d, p.fs, p.err, <<>>, -1, {})
     ELSE Res([Hooked(d, end) EXCEPT
                 !.current = start, !.segmentEnd = end,
                 !.lastPersisted = IF d.impl = "optimized" THEN end
                                   ELSE d.lastPersisted],
              p.fs, OK, <<>>, -1, {end})

\* NewSegmentDispenser(cfg, 1000, 0.1, persistFunc)
NewSegmentDispenser(cfg, fs, ok) ==
  LET d0 == [NoInst EXCEPT !.impl = "segment", !.hookCfg = cfg,
               !.config = [cfg EXCEPT !.Step = IF cfg.Step = 0 THEN 1 ELSE cfg.Step]]
  IN IF validateConfig(cfg) # OK
       THEN Res(NoInst, fs, validateConfig(cfg), <<>>, -1, {})
     ELSE allocateSegment(d0, fs, cfg.Starting, ok)

\* NewOptimizedSegmentDispenser(cfg, 1000, 0.1, 2s, persistFunc); the
\* checkpoint goroutine is started once the first segment is allocated
NewOptimizedSegmentDispenser(cfg, fs, ok) ==
  LET d0 == [NoInst EXCEPT !.impl = "optimized", !.hookCfg = cfg,
               !.config = [cfg EXCEPT !.Step = IF cfg.Step = 0 THEN 1 ELSE cfg.Step]]
      r == allocateSegment(d0, fs, cfg.Starting, ok)
  IN IF validateConfig(cfg) # OK
       THEN Res(NoInst, fs, validateConfig(cfg), <<>>, -1, {})
     ELSE IF r.err # OK THEN r
     ELSE [r EXCEPT !.d.ticks = "run"]

\* DispenserFactory.CreateDispenser
CreateDispenser(cfgIn, fs, ok) ==
  LET cfg == IF cfgIn.AutoDisk = "" THEN [cfgIn EXCEPT !.AutoDisk = StrategyElegantClose]
             ELSE cfgIn
      b == NewDispenser(cfg)
  IN IF cfg.AutoDisk \notin ValidPersistenceStrategies
       THEN Res(NoInst, fs, "invalid persistence strategy", <<>>, -1, {})
     ELSE IF cfg.AutoDisk \in {StrategyMemory, StrategyElegantClose}
       THEN Res(b.d, fs, b.err, <<>>, -1, {})
     ELSE IF cfg.AutoDisk = StrategyPreBase THEN NewSegmentDispenser(cfg, fs, ok)
     ELSE NewOptimizedSegmentDispenser(cfg, fs, ok)

\* GetCurrent: SegmentDispenser reports its segment end
GetCurrent(d) == IF d.impl = "segment" THEN d.segmentEnd ELSE d.current

\* SetCurrent
SetCurrent(d, current) == [d EXCEPT !.current = current]

\* Next of the segment dispensers, part 1: the returns taken before the
\* dispenser lock (the optimized dispenser serves the incremental kind
\* only; SegmentDispenser answers the random kind with a constant)
NextEarly(d) ==
  (d.impl = "optimized" /\ d.config.Type # TypeNumericIncremental)
  \/ (d.impl = "segment" /\ d.config.Type = TypeNumericRandom)

NextEarlyResult(d, fs) ==
  IF d.impl = "optimized" THEN Res(d, fs, ErrSegmentOnly, <<>>, -1, {})
  ELSE Res(d, fs, OK, FormatFixed(d.config.Length, pow10(d.config.Length - 1)),
           pow10(d.config.Length - 1), {})

\* part 2: the rollover test; TRUE when the call has to allocate
\* synchronously (no prepared segment)
NeedsAllocate(d) == d.current >= d.segmentEnd /\ ~d.nextReady

\* the switch to the prepared segment
switchSegment(d) ==
  [d EXCEPT !.wasted = IF d.impl = "optimized"
                         THEN d.wasted + (d.segmentEnd - d.lastPersisted)
                         ELSE d.wasted,
            !.current = d.nextStart, !.segmentEnd = d.nextEnd,
            !.nextReady = FALSE]

\* part 3: hand out currentNumber, start a prefetch goroutine when the
\* remaining share of the segment is at or below the threshold, format
generate(d, fs) ==
  LET num == d.current
      cur == d.current + d.config.Step
      low == (d.segmentEnd - cur) * ThresholdDen
               <= ThresholdNum * SegmentSize * d.config.Step
      d1 == [d EXCEPT !.current = cur,
               !.generated = IF d.impl = "optimized" THEN d.generated + 1
                             ELSE d.generated,
               !.spawned = IF low /\ ~d.nextReady THEN d.spawned + 1 ELSE d.spawned]
  IN IF d.impl = "segment" /\ d.config.Type # TypeNumericIncremental
       THEN Res(d1, fs, ErrInvalidType, <<>>, -1, {})
     ELSE IF IsFixed(d) THEN Res(d1, fs, OK, FormatFixed(d.config.Length, num), num, {})
     ELSE Res(d1, fs, OK, FormatSeq(num), num, {})

\* Next up to the point where it either returns or has to allocate
SegNextLocked(d, fs) ==
  IF d.current >= d.segmentEnd THEN generate(switchSegment(d), fs)
  ELSE generate(d, fs)

\* Next with an allocation that moves to the new segment before the hook
\* has answered
SegNextAllocate_CommitsFirst(d, fs, ok) ==
  LET a == allocateSegment(d, fs, d.segmentEnd, ok)
      g == generate(a.d, a.fs)
  IN IF a.err = ErrDisk
       THEN [a EXCEPT !.d = [d EXCEPT !.current = d.segmentEnd,
                                      !.segmentEnd = d.segmentEnd
                                                     + SegmentSize * d.config.Step]]
     ELSE IF a.err # OK THEN a ELSE [g EXCEPT !.hk = a.hk]

\* Next from the synchronous allocation on
SegNextAllocate(d, fs, ok) ==
  LET a == allocateSegment(d, fs, d.segmentEnd, ok)
      g == generate(a.d, a.fs)
  IN IF a.err # OK THEN a ELSE [g EXCEPT !.hk = a.hk]

\* preloadNextSegment, first half: take nextSegmentMu, read segmentEnd
preloadRead(d) ==
  IF d.nextReady THEN [d EXCEPT !.spawned = d.spawned - 1]
  ELSE [d EXCEPT !.spawned = d.spawned - 1, !.plActive = TRUE,
                 !.plStart = d.segmentEnd,
                 !.plEnd = d.segmentEnd + SegmentSize * d.config.Step]

\* preloadNextSegment publishing the segment whatever the hook answered
preloadCommit_PublishesAnyway(d, fs, ok) ==
  LET p == persistFunc(d, fs, d.plEnd, ok)
      d0 == [d EXCEPT !.plActive = FALSE, !.plStart = 0, !.plEnd = 0]
  IN IF p.err # OK
       THEN Res([d0 EXCEPT !.nextStart = d.plStart, !.nextEnd = d.plEnd,
                           !.nextReady = TRUE],
                p.fs, p.err, <<>>, -1, {})
     ELSE Res([Hooked(d0, d.plEnd) EXCEPT !.nextStart = d.plStart,
                 !.nextEnd = d.plEnd, !.nextReady = TRUE],
              p.fs, OK, <<>>, -1, {d.plEnd})

\* preloadNextSegment, second half: persist the end, publish the segment
preloadCommit(d, fs, ok) ==
  LET p == persistFunc(d, fs, d.plEnd, ok)
      d0 == [d EXCEPT !.plActive = FALSE, !.plStart = 0, !.plEnd = 0]
  IN IF p.err # OK THEN Res(d0, p.fs, p.err, <<>>, -1, {})
     ELSE Res([Hooked(d0, d.plEnd) EXCEPT !.nextStart = d.plStart,
                 !.nextEnd = d.plEnd, !.nextReady = TRUE],
              p.fs, OK, <<>>, -1, {d.plEnd})

\* checkpoint, first half: read currentNumber under the lock
checkpointRead(d) ==
  [d EXCEPT !.cpActive = TRUE, !.cpCur = d.current,
            !.ticks = IF d.ticks = "last" THEN "off" ELSE d.ticks]

\* checkpoint, second half: save it if it differs from lastPersisted
checkpointWrite(d, fs, ok) ==
  LET p == persistFunc(d, fs, d.cpCur, ok)
      d0 == [d EXCEPT !.cpActive = FALSE, !.cpCur = 0]
  IN IF d.cpCur = d.lastPersisted THEN Res(d0, fs, OK, <<>>, -1, {})
     ELSE IF p.err # OK THEN Res(d0, p.fs, p.err, <<>>, -1, {})
     ELSE Res([Hooked(d0, d.cpCur) EXCEPT !.lastPersisted = d.cpCur],
              p.fs, OK, <<>>, -1, {d.cpCur})

\* GracefulShutdown, first half: stop the ticker, close stopChan.  tick
\* says whether a tick was already waiting in the ticker's channel, in
\* which case the goroutine may still run one checkpoint.
shutdownStop(d, tick) ==
  [d EXCEPT !.ticks = IF d.ticks = "run" /\ tick THEN "last" ELSE "off"]

\* GracefulShutdown, second half: save the position read under the lock
shutdownSave(d, fs, current, lastPersisted, ok) ==
  LET p == persistFunc(d, fs, current, ok)
  IN IF p.err # OK THEN Res(d, p.fs, p.err, <<>>, -1, {})
     ELSE Res([Hooked(d, current) EXCEPT
                 !.wasted = IF lastPersisted > current
                              THEN d.wasted + (lastPersisted - current)
                              ELSE d.wasted],
              p.fs, OK, <<>>, -1, {current})

(* ------------------------------ server -------------------------------- *)
\* the comparison without the test of step
changedFields_NoStep(cfg, ex) ==
  {f \in {"length", "starting", "incr_mode", "charset",
          "uuid_format", "machine_id", "datacenter_id"} :
     \/ f = "length" /\ cfg.Length # 0 /\ cfg.Length # ex.Length
     \/ f = "starting" /\ cfg.Starting # 0 /\ cfg.Starting # ex.Starting
     \/ f = "incr_mode" /\ cfg.IncrMode # "" /\ cfg.IncrMode # ex.IncrMode
     \/ f = "charset" /\ cfg.Charset # "" /\ cfg.Charset # ex.Charset
     \/ f = "uuid_format" /\ cfg.UUIDFormat # "" /\ cfg.UUIDFormat # ex.UUIDFormat
     \/ f = "machine_id" /\ cfg.MachineID # 0 /\ cfg.MachineID # ex.MachineID
     \/ f = "datacenter_id" /\ cfg.DatacenterID # 0
          /\ cfg.DatacenterID # ex.DatacenterID}

\* handleHSet's comparison of the parsed fields with the existing config
changedFields(cfg, ex) ==
  {f \in {"length", "starting", "step", "incr_mode", "charset",
          "uuid_format", "machine_id", "datacenter_id"} :
     \/ f = "length" /\ cfg.Length # 0 /\ cfg.Length # ex.Length
     \/ f = "starting" /\ cfg.Starting # 0 /\ cfg.Starting # ex.Starting
     \/ f = "step" /\ cfg.Step # 0 /\ cfg.Step # ex.Step
     \/ f = "incr_mode" /\ cfg.IncrMode # "" /\ cfg.IncrMode # ex.IncrMode
     \/ f = "charset" /\ cfg.Charset # "" /\ cfg.Charset # ex.Charset
     \/ f = "uuid_format" /\ cfg.UUIDFormat # "" /\ cfg.UUIDFormat # ex.UUIDFormat
     \/ f = "machine_id" /\ cfg.MachineID # 0 /\ cfg.MachineID # ex.MachineID
     \/ f = "datacenter_id" /\ cfg.DatacenterID # 0
          /\ cfg.DatacenterID # ex.DatacenterID}

\* the branch taken if an unchanged configuration re-created the dispenser
hsetVerdict_Recreate(cfg, ex) ==
  IF cfg.Type # ex.Type THEN "type"
  ELSE IF changedFields(cfg, ex) # {} THEN "core"
  ELSE "swap"

\* the branch handleHSet takes for an existing dispenser
hsetVerdict(cfg, ex) ==
  IF cfg.Type # ex.Type THEN "type"
  ELSE IF changedFields(cfg, ex) # {} THEN "core"
  ELSE IF cfg.AutoDisk # ex.AutoDisk THEN "swap"
  ELSE "same"

\* the field defaulting done after parsing
withDefaultAutoDisk(cfg) ==
  IF cfg.AutoDisk = "" THEN [cfg EXCEPT !.AutoDisk = StrategyElegantClose] ELSE cfg

VARIABLES
  up,       \* the server process is running
  epoch,    \* number of restarts so far
  fs,       \* the FileStorage (data, dirty, autoSave) and the file (disk)
  insts,    \* the dispenser instances of this process life
  nInst,    \* how many of them have been created
  reg,      \* Server.dispensers[name]: an instance, or 0
  conns,    \* per connection: the command in progress and its locals
  lim,      \* this run's limits: connections, gets, hsets, dels, process ends
  started,  \* gets, hsets and dels started so far
  pp,       \* periodicPersist: position in persistAll and its locals
  out,      \* replies to get, in order
  hout,     \* replies to hset and del: how many, and the last one
  hooked,   \* per epoch: the largest p a dispenser's hook returned success for
  clock,    \* wall clock, ms since the snowflake epoch
  mayFail,  \* disk writes may fail in this run
  boot,     \* history: what the last crash interrupted and the last start-up loaded
  stop      \* Server.Stop: its position and the locals of GracefulShutdown

vars == <<up, epoch, fs, insts, nInst, reg, conns, lim, started, pp, out,
          hout, hooked, clock, mayFail, boot, stop>>

MaxConns == 2
Conns == 1..MaxConns
InstIds == 1..MaxInst
MaxClock == 2

\* a parsed hset command: the fields given (absent ones zero) and their number
NoCmd == [cfg |-> ZeroConfig, n |-> 0]

NoReply ==
  [err |-> OK, id |-> <<>>, num |-> -1, epoch |-> 0, inst |-> 0,
   hook |-> -1, cfg |-> ZeroConfig, stale |-> FALSE, gen |-> 0]

IdleConn ==
  [cmd |-> "none", pc |-> "idle", inst |-> 0, rep |-> NoReply,
   cur |-> 0, cfg |-> ZeroConfig, in |-> NoCmd, kind |-> "", new |-> 0,
   gsCur |-> 0, gsLast |-> 0]

IdlePP == [pc |-> "idle", cur |-> 0, cfg |-> ZeroConfig]

\* outcomes a disk write can have in this run
DiskOutcomes == IF mayFail THEN {TRUE, FALSE} ELSE {TRUE}

\* s.mu is write-locked by an hset that is shutting the old dispenser down
regLocked == \E c \in Conns : conns[c].pc = "swap"

MaxOf(S, m) == IF S = {} THEN m ELSE Max(m, CHOOSE x \in S : \A y \in S : x >= y)
HookedAt(e, hk) == [hooked EXCEPT ![e] = MaxOf(hk, @)]
HookedNow(hk) == HookedAt(epoch, hk)

\* a reply to get; gen is the instance's count of generated identifiers
\* when Next returned, i.e. the rank of the call among the successful ones
GetReply(c, r, i) ==
  [err |-> r.err, id |-> r.id, num |-> r.num, epoch |-> epoch,
   inst |-> i, hook |-> r.d.maxHook, cfg |-> r.d.config,
   stale |-> (reg # i), gen |-> r.d.generated]

\* no hset reply yet
NoHSets ==
  [n |-> 0,
   last |-> [in |-> NoCmd, kind |-> "", err |-> OK, n |-> 0, epoch |-> 0, gets |-> 0]]

\* the hset reply r is sent
Sent(r) == [n |-> hout.n + 1, last |-> r]

\* boot.inflight: a get was in progress when the process was killed;
\* boot.present, boot.Current: the entry start-up found in the file;
\* boot.gets: number of gets started before that start-up;
\* boot.graceful: the process had ended after Server.Stop had returned
NoBoot ==
  [inflight |-> FALSE, present |-> FALSE, Current |-> 0, gets |-> 0,
   graceful |-> FALSE]

\* Server.Stop has not been called
NoStop == [pc |-> "run", gsCur |-> 0, gsLast |-> 0]

InitWith(auto, fail, n) ==
  /\ up = TRUE
  /\ epoch = 0
  /\ fs = NewFileStorage(NoEntry, auto)
  /\ insts = [i \in InstIds |-> NoInst]
  /\ nInst = 0
  /\ reg = 0
  /\ conns = [c \in Conns |-> IdleConn]
  /\ lim = n
  /\ started = [get |-> 0, hset |-> 0, del |-> 0]
  /\ pp = IdlePP
  /\ out = <<>>
  /\ hout = NoHSets
  /\ hooked = [e \in 0..(MaxCrash + 1) |-> -1]
  /\ clock = 0
  /\ mayFail = fail
  /\ boot = NoBoot
  /\ stop = NoStop

(* ---- get ---- *)
\* the random draws a Next of instance d may end on: the two ends of the
\* number space (or a run of 100 collisions), two character values
Draws(d) ==
  IF d.impl = "basic" /\ d.config.Type = TypeNumericRandom
    THEN {pow10(d.config.Length - 1), pow10(d.config.Length) - 1}
         \cup (IF d.used = {} THEN {} ELSE {-1})
  ELSE IF d.impl = "basic" /\ d.config.Type \in {TypeAlphanumericRandom, TypeUUID}
    THEN {3, 10}
  ELSE {0}

\* what handleGet does with the result of d.Next(): an error is replied at
\* once, so is an identifier unless the strategy is elegant_close and the
\* kind incremental, in which case the save comes first
AfterNext(c, r, i) ==
  IF r.err = OK /\ r.d.config.AutoDisk = StrategyElegantClose
     /\ r.d.config.Type = TypeNumericIncremental
    THEN /\ conns' = [conns EXCEPT ![c].pc = "cur", ![c].rep = GetReply(c, r, i)]
         /\ out' = out
    ELSE /\ conns' = [conns EXCEPT ![c] = IdleConn]
         /\ out' = Append(out, GetReply(c, r, i))

\* handleGet: registry lookup
GetStart(c) ==
  /\ up /\ c <= lim.conns /\ conns[c].cmd = "none"
  /\ stop.pc = "run"
  /\ started.get < lim.gets
  /\ ~regLocked
  /\ started' = [started EXCEPT !.get = @ + 1]
  /\ IF reg = 0
       THEN /\ out' = Append(out, [NoReply EXCEPT !.epoch = epoch,
                                     !.err = "ERR dispenser not found"])
            /\ conns' = conns
       ELSE /\ conns' = [conns EXCEPT ![c].cmd = "get", ![c].pc = "next",
                                      ![c].inst = reg]
            /\ out' = out
  /\ UNCHANGED <<up, epoch, fs, insts, nInst, reg, lim, pp, hout, hooked,
                 clock, mayFail, stop, boot>>

\* handleGet: d.Next() of the basic dispenser
GetNextBasic(c) ==
  /\ up /\ conns[c].pc = "next"
  /\ LET i == conns[c].inst
         d == insts[i]
     IN /\ d.impl = "basic"
        /\ \E draw \in Draws(d) :
             LET wrap == d.config.Type = TypeSnowflake /\ clock = d.lastTimestamp
                         /\ (d.seqCounter + 1) % (SeqMask + 1) = 0
                 r == BasicNext(d, draw, clock, d.lastTimestamp + 1)
             IN /\ insts' = [insts EXCEPT ![i] = r.d]
                /\ clock' = IF wrap THEN d.lastTimestamp + 1 ELSE clock
                /\ AfterNext(c, r, i)
  /\ UNCHANGED <<up, epoch, fs, nInst, reg, lim, started, pp, hout, hooked,
                 mayFail, stop, boot>>

\* handleGet: d.Next() of a segment dispenser, up to its return or to the
\* point where it has to allocate synchronously
GetNextSegment(c) ==
  /\ up /\ conns[c].pc = "next"
  /\ LET i == conns[c].inst
         d == insts[i]
     IN /\ d.impl \in {"segment", "optimized"}
        /\ IF NextEarly(d)
             THEN /\ insts' = insts
                  /\ AfterNext(c, NextEarlyResult(d, fs), i)
           ELSE /\ ~d.muHeld
                /\ d.current >= d.segmentEnd => ~d.plActive
                /\ IF NeedsAllocate(d)
                     THEN /\ insts' = [insts EXCEPT ![i].muHeld = TRUE]
                          /\ conns' = [conns EXCEPT ![c].pc = "alloc"]
                          /\ out' = out
                   ELSE LET r == SegNextLocked(d, fs)
                        IN /\ r.d.spawned <= MaxSpawn
                           /\ insts' = [insts EXCEPT ![i] = r.d]
                           /\ AfterNext(c, r, i)
  /\ UNCHANGED <<up, epoch, fs, nInst, reg, lim, started, pp, hout, hooked,
                 clock, mayFail, stop, boot>>

\* handleGet: the rest of d.Next() after the rollover test found no
\* prepared segment: allocateSegment(segmentEnd), then hand out
GetNextAllocate(c) ==
  /\ up /\ conns[c].pc = "alloc"
  /\ LET i == conns[c].inst
         d == insts[i]
     IN \E ok \in DiskOutcomes :
          LET r == SegNextAllocate(d, fs, ok)
          IN /\ r.d.spawned <= MaxSpawn
             /\ insts' = [insts EXCEPT ![i] = [r.d EXCEPT !.muHeld = FALSE]]
             /\ fs' = r.fs
             /\ hooked' = HookedNow(r.hk)
             /\ AfterNext(c, r, i)
  /\ UNCHANGED <<up, epoch, nInst, reg, lim, started, pp, hout, clock, mayFail, stop, boot>>

\* handleGet under elegant_close: d.GetCurrent()
GetCur(c) ==
  /\ up /\ conns[c].cmd = "get" /\ conns[c].pc = "cur"
  /\ ~insts[conns[c].inst].muHeld
  /\ conns' = [conns EXCEPT ![c].pc = "save",
                            ![c].cur = GetCurrent(insts[conns[c].inst])]
  /\ UNCHANGED <<up, epoch, fs, insts, nInst, reg, lim, started, pp, out,
                 hout, hooked, clock, mayFail, stop, boot>>

\* handleGet under elegant_close: storage.Save, whose error is dropped,
\* then the reply
GetSave(c) ==
  /\ up /\ conns[c].cmd = "get" /\ conns[c].pc = "save"
  /\ \E ok \in DiskOutcomes :
       LET p == Save(fs, insts[conns[c].inst].config, conns[c].cur, ok)
       IN /\ fs' = p.fs
  /\ out' = Append(out, conns[c].rep)
  /\ conns' = [conns EXCEPT ![c] = IdleConn]
  /\ UNCHANGED <<up, epoch, insts, nInst, reg, lim, started, pp, hout,
                 hooked, clock, mayFail, stop, boot>>

(* ---- background tasks ---- *)
\* a prefetch goroutine starts running
PreloadRead(i) ==
  /\ up /\ insts[i].spawned > 0 /\ ~insts[i].plActive
  /\ insts' = [insts EXCEPT ![i] = preloadRead(insts[i])]
  /\ UNCHANGED <<up, epoch, fs, nInst, reg, conns, lim, started, pp, out,
                 hout, hooked, clock, mayFail, stop, boot>>

\* the prefetch goroutine persists and publishes
PreloadCommit(i) ==
  /\ up /\ insts[i].plActive
  /\ \E ok \in DiskOutcomes :
       LET r == preloadCommit(insts[i], fs, ok)
       IN /\ insts' = [insts EXCEPT ![i] = r.d]
          /\ fs' = r.fs
          /\ hooked' = HookedNow(r.hk)
  /\ UNCHANGED <<up, epoch, nInst, reg, conns, lim, started, pp, out, hout,
                 clock, mayFail, stop, boot>>

\* the checkpoint ticker fires
CheckpointRead(i) ==
  /\ up /\ insts[i].impl = "optimized"
  /\ insts[i].ticks \in {"run", "last"}
  /\ ~insts[i].cpActive /\ ~insts[i].muHeld
  /\ insts' = [insts EXCEPT ![i] = checkpointRead(insts[i])]
  /\ UNCHANGED <<up, epoch, fs, nInst, reg, conns, lim, started, pp, out,
                 hout, hooked, clock, mayFail, stop, boot>>

CheckpointWrite(i) ==
  /\ up /\ insts[i].cpActive
  /\ \E ok \in DiskOutcomes :
       LET r == checkpointWrite(insts[i], fs, ok)
       IN /\ insts' = [insts EXCEPT ![i] = r.d]
          /\ fs' = r.fs
          /\ hooked' = HookedNow(r.hk)
  /\ UNCHANGED <<up, epoch, nInst, reg, conns, lim, started, pp, out, hout,
                 clock, mayFail, stop, boot>>

\* autoSaveLoop: every 5 s, write the map if it is dirty
AutoSave ==
  /\ up /\ fs.autoSave /\ fs.dirty
  /\ \E ok \in DiskOutcomes : fs' = saveToDisk(fs, ok).fs
  /\ UNCHANGED <<up, epoch, insts, nInst, reg, conns, lim, started, pp, out,
                 hout, hooked, clock, mayFail, stop, boot>>

\* periodicPersist -> persistAll, under the registry read lock:
\* GetConfig and GetCurrent of the registered dispenser
PersistRead ==
  /\ up /\ pp.pc = "idle" /\ ~regLocked
  /\ stop.pc = "run"
  /\ IF reg = 0 THEN pp' = [pp EXCEPT !.pc = "flush"]
     ELSE /\ ~insts[reg].muHeld
          /\ pp' = [pc |-> "save", cur |-> GetCurrent(insts[reg]),
                    cfg |-> insts[reg].config]
  /\ UNCHANGED <<up, epoch, fs, insts, nInst, reg, conns, lim, started, out,
                 hout, hooked, clock, mayFail, stop, boot>>

\* persistAll: storage.Save (a failure is logged), then Flush
PersistSave ==
  /\ up /\ pp.pc \in {"save", "flush"}
  /\ \E ok1 \in DiskOutcomes, ok2 \in DiskOutcomes :
       LET p == IF pp.pc = "save" THEN Save(fs, pp.cfg, pp.cur, ok1).fs ELSE fs
       IN fs' = Flush(p, ok2).fs
  /\ pp' = IdlePP
  /\ UNCHANGED <<up, epoch, insts, nInst, reg, conns, lim, started, out,
                 hout, hooked, clock, mayFail, stop, boot>>

\* the process is killed: everything in memory is lost, the file stays
Crash ==
  /\ up /\ epoch < lim.crash
  /\ up' = FALSE
  /\ fs' = [fs EXCEPT !.data = NoEntry, !.dirty = FALSE]
  /\ insts' = [i \in InstIds |-> NoInst]
  /\ nInst' = 0
  /\ reg' = 0
  /\ conns' = [c \in Conns |-> IdleConn]
  /\ pp' = IdlePP
  /\ boot' = [NoBoot EXCEPT !.inflight = \E c \in Conns : conns[c].cmd = "get"]
  /\ UNCHANGED <<epoch, lim, started, out, hout, hooked, clock, mayFail, stop>>

\* NewServer: NewFileStorage reads the file, loadDispensers re-creates the
\* dispenser of the entry and sets its current to the saved position
Restart ==
  /\ ~up
  /\ up' = TRUE
  /\ epoch' = epoch + 1
  /\ LET st == NewFileStorage(fs.disk, fs.autoSave)
         r == CreateDispenser(st.data.Config, st, TRUE)
     IN IF st.data.present /\ r.err = OK
          THEN /\ insts' = [insts EXCEPT ![1] = SetCurrent(r.d, st.data.Current)]
               /\ nInst' = 1
               /\ reg' = 1
               /\ fs' = r.fs
               /\ hooked' = HookedAt(epoch + 1, r.hk)
          ELSE /\ fs' = IF st.data.present THEN r.fs ELSE st
               /\ UNCHANGED <<insts, nInst, reg, hooked>>
  /\ boot' = [boot EXCEPT !.present = fs.disk.present, !.Current = fs.disk.Current,
                          !.gets = started.get, !.graceful = (stop.pc = "done")]
  /\ stop' = NoStop
  /\ UNCHANGED <<conns, lim, started, pp, out, hout, clock, mayFail>>

\* a millisecond passes (of interest to the snowflake kind only)
ClockTick ==
  /\ up /\ clock < MaxClock
  /\ reg # 0 /\ insts[reg].config.Type = TypeSnowflake
  /\ clock' = clock + 1
  /\ UNCHANGED <<up, epoch, fs, insts, nInst, reg, conns, lim, started, pp,
                 out, hout, hooked, mayFail, stop, boot>>

\* the wall clock is set back by a millisecond
ClockBack ==
  /\ up /\ clock > 0
  /\ reg # 0 /\ insts[reg].config.Type = TypeSnowflake
  /\ clock' = clock - 1
  /\ UNCHANGED <<up, epoch, fs, insts, nInst, reg, conns, lim, started, pp,
                 out, hout, hooked, mayFail, stop, boot>>

(* ---- hset ---- *)
\* a reply to hset: kind is the branch taken ("create", "type", "core",
\* "same", "swap"), in the parsed command (fields and their number), n the
\* integer replied, gets the number of get replies sent before it
HSetReply(c, in, kind, err) ==
  [in |-> in, kind |-> kind, err |-> err,
   n |-> IF err = OK THEN in.n ELSE 0, epoch |-> epoch, gets |-> Len(out)]

\* handleHSet for a parsed command: the lookup and, for an unknown name,
\* CreateDispenser and the registration; for a known name the comparison
HSetStart(c, in) ==
  /\ up /\ c <= lim.conns /\ conns[c].cmd = "none"
  /\ stop.pc = "run"
  /\ started.hset < lim.hsets
  /\ ~regLocked /\ pp.pc = "idle"
  /\ started' = [started EXCEPT !.hset = @ + 1]
  /\ LET cfg == withDefaultAutoDisk(in.cfg)
     IN IF reg = 0
          THEN /\ nInst < MaxInst
               /\ \E ok \in DiskOutcomes :
                    LET r == CreateDispenser(cfg, fs, ok)
                    IN /\ fs' = r.fs
                       /\ hooked' = HookedNow(r.hk)
                       /\ IF r.err # OK
                            THEN /\ hout' = Sent(HSetReply(c, in, "create", r.err))
                                 /\ UNCHANGED <<insts, nInst, reg, conns>>
                            ELSE /\ insts' = [insts EXCEPT ![nInst + 1] = r.d]
                                 /\ nInst' = nInst + 1
                                 /\ reg' = nInst + 1
                                 /\ conns' = [conns EXCEPT ![c] =
                                      [IdleConn EXCEPT !.cmd = "hset", !.pc = "readcur",
                                         !.new = nInst + 1, !.cfg = cfg, !.in = in,
                                         !.kind = "create"]]
                                 /\ hout' = hout
          ELSE /\ ~insts[reg].muHeld
               /\ LET v == hsetVerdict(cfg, insts[reg].config)
                  IN IF v = "swap"
                       THEN /\ conns' = [conns EXCEPT ![c] =
                                 [IdleConn EXCEPT !.cmd = "hset", !.pc = "getcur",
                                    !.inst = reg, !.cfg = cfg, !.in = in,
                                    !.kind = "swap"]]
                            /\ hout' = hout
                     ELSE /\ hout' = Sent(HSetReply(c, in, v,
                                        IF v = "same" THEN OK
                                        ELSE IF v = "type" THEN "ERR cannot change dispenser type"
                                        ELSE "ERR cannot change core parameters"))
                          /\ conns' = conns
               /\ UNCHANGED <<fs, insts, nInst, reg, hooked>>
  /\ UNCHANGED <<up, epoch, lim, pp, out, clock, mayFail, stop, boot>>

\* handleHSet, durability change: currentValue := existing.GetCurrent()
HSetGetCur(c) ==
  /\ up /\ conns[c].pc = "getcur"
  /\ ~insts[conns[c].inst].muHeld
  /\ conns' = [conns EXCEPT ![c].pc = "create",
                            ![c].cur = GetCurrent(insts[conns[c].inst])]
  /\ UNCHANGED <<up, epoch, fs, insts, nInst, reg, lim, started, pp, out,
                 hout, hooked, clock, mayFail, stop, boot>>

\* handleHSet, durability change: CreateDispenser with the existing
\* configuration under the new strategy, then SetCurrent(currentValue)
HSetCreate(c) ==
  /\ up /\ conns[c].pc = "create"
  /\ nInst < MaxInst
  /\ LET newCfg == [insts[conns[c].inst].config EXCEPT !.AutoDisk = conns[c].cfg.AutoDisk]
     IN \E ok \in DiskOutcomes :
          LET r == CreateDispenser(newCfg, fs, ok)
          IN /\ fs' = r.fs
             /\ hooked' = HookedNow(r.hk)
             /\ IF r.err # OK
                  THEN /\ hout' = Sent(HSetReply(c, conns[c].in, "swap", r.err))
                       /\ conns' = [conns EXCEPT ![c] = IdleConn]
                       /\ UNCHANGED <<insts, nInst>>
                  ELSE /\ insts' = [insts EXCEPT ![nInst + 1] =
                            IF newCfg.Type = TypeNumericIncremental
                              THEN SetCurrent(r.d, conns[c].cur) ELSE r.d]
                       /\ nInst' = nInst + 1
                       /\ conns' = [conns EXCEPT ![c].pc = "shutdown",
                                                 ![c].new = nInst + 1,
                                                 ![c].cfg = newCfg]
                       /\ hout' = hout
  /\ UNCHANGED <<up, epoch, reg, lim, started, pp, out, clock, mayFail, stop, boot>>

\* handleHSet, durability change: s.mu.Lock, existingDispenser.Shutdown().
\* The basic and the segment dispenser have nothing to shut down, so the
\* registry entry is replaced at once; the optimized dispenser stops its
\* ticker and reads its position, and the save follows (HSetSwap).
\* Closing a stopChan that is already closed panics: the process dies.
HSetShutdown(c) ==
  /\ up /\ conns[c].pc = "shutdown"
  /\ ~regLocked /\ pp.pc = "idle"
  /\ LET i == conns[c].inst
         d == insts[i]
     IN IF d.impl # "optimized"
          THEN /\ reg' = conns[c].new
               /\ conns' = [conns EXCEPT ![c].pc = "readcur"]
               /\ UNCHANGED <<up, fs, insts, nInst, pp, boot>>
        ELSE IF d.ticks # "run"
          THEN /\ up' = FALSE
               /\ fs' = [fs EXCEPT !.data = NoEntry, !.dirty = FALSE]
               /\ insts' = [j \in InstIds |-> NoInst]
               /\ nInst' = 0
               /\ reg' = 0
               /\ conns' = [k \in Conns |-> IdleConn]
               /\ pp' = IdlePP
               /\ boot' = [NoBoot EXCEPT !.inflight = \E k \in Conns : conns[k].cmd = "get"]
        ELSE /\ ~d.muHeld
             /\ \E tick \in BOOLEAN :
                  insts' = [insts EXCEPT ![i] = shutdownStop(d, tick)]
             /\ conns' = [conns EXCEPT ![c].pc = "swap", ![c].gsCur = d.current,
                                       ![c].gsLast = d.lastPersisted]
             /\ UNCHANGED <<up, fs, nInst, reg, pp, boot>>
  /\ UNCHANGED <<epoch, lim, started, out, hout, hooked, clock, mayFail, stop>>

\* handleHSet, durability change: the save of GracefulShutdown, then the
\* registry entry is replaced and s.mu released; a failed save leaves the
\* old dispenser registered and is replied as an error
HSetSwap(c) ==
  /\ up /\ conns[c].pc = "swap"
  /\ LET i == conns[c].inst
     IN \E ok \in DiskOutcomes :
          LET r == shutdownSave(insts[i], fs, conns[c].gsCur, conns[c].gsLast, ok)
          IN /\ fs' = r.fs
             /\ hooked' = HookedNow(r.hk)
             /\ insts' = [insts EXCEPT ![i] = r.d]
             /\ IF r.err # OK
                  THEN /\ hout' = Sent(HSetReply(c, conns[c].in, "swap", r.err))
                       /\ conns' = [conns EXCEPT ![c] = IdleConn]
                       /\ reg' = reg
                  ELSE /\ reg' = conns[c].new
                       /\ conns' = [conns EXCEPT ![c].pc = "readcur"]
                       /\ hout' = hout
  /\ UNCHANGED <<up, epoch, nInst, lim, started, pp, out, clock, mayFail, stop, boot>>

\* handleHSet, both branches: d.GetCurrent() of the new dispenser
HSetReadCur(c) ==
  /\ up /\ conns[c].pc = "readcur"
  /\ ~insts[conns[c].new].muHeld
  /\ conns' = [conns EXCEPT ![c].pc = "save",
                            ![c].cur = GetCurrent(insts[conns[c].new])]
  /\ UNCHANGED <<up, epoch, fs, insts, nInst, reg, lim, started, pp, out,
                 hout, hooked, clock, mayFail, stop, boot>>

\* handleHSet, both branches: storage.Save and the reply
HSetSave(c) ==
  /\ up /\ conns[c].cmd = "hset" /\ conns[c].pc = "save"
  /\ \E ok \in DiskOutcomes :
       LET p == Save(fs, conns[c].cfg, conns[c].cur, ok)
       IN /\ fs' = p.fs
          /\ hout' = Sent(HSetReply(c, conns[c].in, conns[c].kind,
                               IF p.err = OK THEN OK ELSE "ERR failed to save"))
  /\ conns' = [conns EXCEPT ![c] = IdleConn]
  /\ UNCHANGED <<up, epoch, insts, nInst, reg, lim, started, pp, out, hooked,
                 clock, mayFail, stop, boot>>

(* ---- del ---- *)
\* a reply to del: the integer n, or an error
DelReply(err, n) ==
  [in |-> NoCmd, kind |-> "del", err |-> err, n |-> n, epoch |-> epoch,
   gets |-> Len(out)]

\* handleDel: under s.mu, look the name up and remove it from the registry;
\* an unknown name is answered 0
DelStart(c) ==
  /\ up /\ c <= lim.conns /\ conns[c].cmd = "none"
  /\ stop.pc = "run"
  /\ started.del < lim.dels
  /\ ~regLocked /\ pp.pc = "idle"
  /\ started' = [started EXCEPT !.del = @ + 1]
  /\ IF reg = 0
       THEN /\ hout' = Sent(DelReply(OK, 0))
            /\ UNCHANGED <<reg, conns>>
       ELSE /\ reg' = 0
            /\ conns' = [conns EXCEPT ![c] =
                           [IdleConn EXCEPT !.cmd = "del", !.pc = "delete", !.inst = reg]]
            /\ hout' = hout
  /\ UNCHANGED <<up, epoch, fs, insts, nInst, lim, pp, out, hooked, clock,
                 mayFail, boot, stop>>

\* handleDel: storage.Delete and the reply
DelSave(c) ==
  /\ up /\ conns[c].cmd = "del" /\ conns[c].pc = "delete"
  /\ \E ok \in DiskOutcomes :
       LET p == Delete(fs, ok)
       IN /\ fs' = p.fs
          /\ hout' = Sent(IF p.err = OK THEN DelReply(OK, 1)
                          ELSE DelReply("ERR failed to delete", 0))
  /\ conns' = [conns EXCEPT ![c] = IdleConn]
  /\ UNCHANGED <<up, epoch, insts, nInst, reg, lim, started, pp, out, hooked,
                 clock, mayFail, boot, stop>>

(* ---- Server.Stop ---- *)
\* handleShutdown received a signal: Stop closes s.shutdown and the
\* listener.  A command read after this and before wg.Wait returns runs
\* like one read just before, so no command starts from here on.
StopBegin ==
  /\ up /\ stop.pc = "run" /\ epoch < lim.crash
  /\ stop' = [stop EXCEPT !.pc = "wait"]
  /\ UNCHANGED <<up, epoch, fs, insts, nInst, reg, conns, lim, started, pp,
                 out, hout, hooked, clock, mayFail, boot>>

\* Stop: wg.Wait has returned (no command in progress); under s.mu,
\* d.Shutdown() of the registered dispenser.  The optimized dispenser stops
\* its ticker, closes stopChan (a second close panics) and reads its
\* position; the others have nothing to do.
StopShutdown ==
  /\ up /\ stop.pc = "wait"
  /\ \A c \in Conns : conns[c].cmd = "none"
  /\ ~regLocked /\ pp.pc = "idle"
  /\ IF reg = 0 \/ insts[reg].impl # "optimized"
       THEN /\ stop' = [stop EXCEPT !.pc = "persist"]
            /\ UNCHANGED <<up, fs, insts, nInst, reg, conns, pp, boot>>
     ELSE IF insts[reg].ticks # "run"
       THEN /\ up' = FALSE
            /\ fs' = [fs EXCEPT !.data = NoEntry, !.dirty = FALSE]
            /\ insts' = [j \in InstIds |-> NoInst]
            /\ nInst' = 0
            /\ reg' = 0
            /\ conns' = [k \in Conns |-> IdleConn]
            /\ pp' = IdlePP
            /\ boot' = NoBoot
            /\ stop' = stop
     ELSE /\ ~insts[reg].muHeld
          /\ \E tick \in BOOLEAN :
               insts' = [insts EXCEPT ![reg] = shutdownStop(insts[reg], tick)]
          /\ stop' = [pc |-> "gsave", gsCur |-> insts[reg].current,
                      gsLast |-> insts[reg].lastPersisted]
          /\ UNCHANGED <<up, fs, nInst, reg, conns, pp, boot>>
  /\ UNCHANGED <<epoch, lim, started, out, hout, hooked, clock, mayFail>>

\* Stop: the save of GracefulShutdown; its error is logged
StopSave ==
  /\ up /\ stop.pc = "gsave"
  /\ \E ok \in DiskOutcomes :
       LET r == shutdownSave(insts[reg], fs, stop.gsCur, stop.gsLast, ok)
       IN /\ fs' = r.fs
          /\ hooked' = HookedNow(r.hk)
          /\ insts' = [insts EXCEPT ![reg] = r.d]
  /\ stop' = [stop EXCEPT !.pc = "persist"]
  /\ UNCHANGED <<up, epoch, nInst, reg, conns, lim, started, pp, out, hout,
                 clock, mayFail, boot>>

\* Stop: the final persistAll (Save of GetConfig and GetCurrent, Flush),
\* after which Stop returns
StopPersist ==
  /\ up /\ stop.pc = "persist"
  /\ reg # 0 => ~insts[reg].muHeld
  /\ \E ok1 \in DiskOutcomes, ok2 \in DiskOutcomes :
       LET p == IF reg # 0
                  THEN Save(fs, insts[reg].config, GetCurrent(insts[reg]), ok1).fs
                ELSE fs
       IN fs' = Flush(p, ok2).fs
  /\ stop' = [stop EXCEPT !.pc = "done"]
  /\ UNCHANGED <<up, epoch, insts, nInst, reg, conns, lim, started, pp, out,
                 hout, hooked, clock, mayFail, boot>>

\* the process ends: Start returns once the listener is closed and main
\* returns with it, whether or not Stop has got to its end
Exit ==
  /\ up /\ stop.pc # "run"
  /\ up' = FALSE
  /\ fs' = [fs EXCEPT !.data = NoEntry, !.dirty = FALSE]
  /\ insts' = [i \in InstIds |-> NoInst]
  /\ nInst' = 0
  /\ reg' = 0
  /\ conns' = [c \in Conns |-> IdleConn]
  /\ pp' = IdlePP
  /\ boot' = [NoBoot EXCEPT !.inflight = \E c \in Conns : conns[c].cmd = "get"]
  /\ UNCHANGED <<epoch, lim, started, out, hout, hooked, clock, mayFail, stop>>

(* --------------------------- specifications --------------------------- *)
\* a parsed hset command for configuration cfg: n counts the fields given
MkCmd(cfg) ==
  [cfg |-> cfg,
   n |-> Cardinality({f \in DOMAIN cfg : cfg[f] # ZeroConfig[f]})]

\* hset <name> type 2 [length l] [starting s] [step k] [incr_mode m] [auto_disk a]
IncCmd(l, s, k, m, a) ==
  MkCmd([ZeroConfig EXCEPT !.Type = TypeNumericIncremental, !.Length = l,
           !.Starting = s, !.Step = k, !.IncrMode = m, !.AutoDisk = a])

\* a run's limits; auto is the strategy the run's client asks for, where
\* the client is one that keeps to one strategy
Limits(c, g, h, k) ==
  [conns |-> c, gets |-> g, hsets |-> h, crash |-> k, auto |-> "", dels |-> 0]

(* ---- the server with one crash: a sequence dispenser is created under
        one of the five strategies, a client issues gets, the background
        tasks run, the process is killed and started again ---- *)
ServerCmds ==
  {IncCmd(0, 0, 1, IncrModeSequence, a) : a \in ValidPersistenceStrategies}

InitServer == InitWith(TRUE, FALSE, Limits(1, MaxGets, 1, MaxCrash))

NextServer ==
  \/ \E c \in Conns, in \in ServerCmds : HSetStart(c, in)
  \/ \E c \in Conns : HSetReadCur(c)
  \/ \E c \in Conns : HSetSave(c)
  \/ \E c \in Conns : GetStart(c)
  \/ \E c \in Conns : GetNextBasic(c)
  \/ \E c \in Conns : GetNextSegment(c)
  \/ \E c \in Conns : GetNextAllocate(c)
  \/ \E c \in Conns : GetCur(c)
  \/ \E c \in Conns : GetSave(c)
  \/ \E i \in InstIds : PreloadRead(i)
  \/ \E i \in InstIds : PreloadCommit(i)
  \/ \E i \in InstIds : CheckpointRead(i)
  \/ \E i \in InstIds : CheckpointWrite(i)
  \/ AutoSave
  \/ PersistRead
  \/ PersistSave
  \/ Crash
  \/ Restart

SpecServer == InitServer /\ [][NextServer]_vars

(* ---- one process life, concurrent callers of a segment dispenser: the
        factory has built the dispenser (as the segment tests do), two
        connections issue gets while the prefetch goroutines and the
        checkpoint ticker run.  The storage is buffered (the hook cannot
        fail) or unbuffered with disk writes that may fail. ---- *)
\* Number of get requests of such a run.
MaxRaceGets == 5

\* sequence mode from 0 by 1; fixed width 1 from 7 by 2 (the last segment
\* is cut at 10)
DispCfgs ==
  {IncCmd(0, 0, 1, IncrModeSequence, a).cfg : a \in {StrategyPreBase, StrategyPreCheckpoint}}
  \cup {IncCmd(1, 7, 2, IncrModeFixed, a).cfg : a \in {StrategyPreBase, StrategyPreCheckpoint}}

\* the state after CreateDispenser(cfg) has succeeded and the dispenser is
\* registered; byHSet: it was handleHSet that created it, and saved it
InitCreated(auto, fail, n, cfg, byHSet) ==
  LET r == CreateDispenser(cfg, NewFileStorage(NoEntry, auto), TRUE)
  IN /\ up = TRUE
     /\ epoch = 0
     /\ fs = IF byHSet THEN Save(r.fs, withDefaultAutoDisk(cfg), GetCurrent(r.d), TRUE).fs
             ELSE r.fs
     /\ insts = [i \in InstIds |-> IF i = 1 THEN r.d ELSE NoInst]
     /\ nInst = 1
     /\ reg = 1
     /\ conns = [c \in Conns |-> IdleConn]
     /\ lim = n
     /\ started = [get |-> 0, hset |-> 0, del |-> 0]
     /\ pp = IdlePP
     /\ out = <<>>
     /\ hout = NoHSets
     /\ hooked = [e \in 0..(MaxCrash + 1) |-> IF e = 0 THEN MaxOf(r.hk, -1) ELSE -1]
     /\ clock = 0
     /\ mayFail = fail
     /\ boot = NoBoot
     /\ stop = NoStop

InitDisp ==
  \E cfg \in DispCfgs :
    \/ InitCreated(TRUE, FALSE, Limits(MaxConns, MaxRaceGets, 0, 0), cfg, FALSE)
    \/ InitCreated(FALSE, TRUE, Limits(MaxConns, MaxRaceGets, 0, 0), cfg, FALSE)

NextDisp ==
  \/ \E c \in Conns : GetStart(c)
  \/ \E c \in Conns : GetNextSegment(c)
  \/ \E c \in Conns : GetNextAllocate(c)
  \/ \E i \in InstIds : PreloadRead(i)
  \/ \E i \in InstIds : PreloadCommit(i)
  \/ \E i \in InstIds : CheckpointRead(i)
  \/ \E i \in InstIds : CheckpointWrite(i)

SpecDisp == InitDisp /\ [][NextDisp]_vars

(* ---- one client, no crash: hset commands of every kind, changed and
        unchanged, with gets in between.  The client asks for one strategy
        throughout, by name or by leaving auto_disk out (which means
        elegant_close).  The runs are shorter than the periods of the
        timers (checkpoint, auto-save, periodic persist), which do not
        fire. ---- *)
\* hset <name> type t plus one more field
KindCmd(t, f, v) == MkCmd([ZeroConfig EXCEPT !.Type = t, ![f] = v])

SeqCmds(a) ==
  {IncCmd(0, 0, 0, "", a), IncCmd(0, 0, 0, "", "")}
  \cup {IncCmd(0, 0, 2, "", a), IncCmd(0, 5, 0, "", a), IncCmd(1, 8, 2, IncrModeFixed, a),
        IncCmd(0, 0, 0, IncrModeFixed, "")}
  \cup {KindCmd(TypeNumericRandom, "Length", 1),
        KindCmd(TypeNumericRandom, "Length", 2),
        KindCmd(TypeAlphanumericRandom, "Length", 2),
        MkCmd([ZeroConfig EXCEPT !.Type = TypeAlphanumericRandom, !.Length = 2,
                 !.Charset = "base62"]),
        KindCmd(TypeSnowflake, "MachineID", 1),
        KindCmd(TypeSnowflake, "MachineID", 2),
        KindCmd(TypeSnowflake, "DatacenterID", 1),
        KindCmd(TypeUUID, "UUIDFormat", "standard"),
        KindCmd(TypeUUID, "UUIDFormat", "compact")}

\* Number of get requests of such a run.
MaxSeqGets == 2

InitSeq ==
  \E a \in ValidPersistenceStrategies :
    InitWith(TRUE, FALSE, [Limits(1, MaxSeqGets, MaxHSets, 0) EXCEPT !.auto = a])

NextSeq ==
  \/ \E c \in Conns, in \in SeqCmds(lim.auto) : HSetStart(c, in)
  \/ \E c \in Conns : HSetGetCur(c)
  \/ \E c \in Conns : HSetCreate(c)
  \/ \E c \in Conns : HSetShutdown(c)
  \/ \E c \in Conns : HSetSwap(c)
  \/ \E c \in Conns : HSetReadCur(c)
  \/ \E c \in Conns : HSetSave(c)
  \/ \E c \in Conns : GetStart(c)
  \/ \E c \in Conns : GetNextBasic(c)
  \/ \E c \in Conns : GetNextSegment(c)
  \/ \E c \in Conns : GetNextAllocate(c)
  \/ \E c \in Conns : GetCur(c)
  \/ \E c \in Conns : GetSave(c)
  \/ \E i \in InstIds : PreloadRead(i)
  \/ \E i \in InstIds : PreloadCommit(i)
  \/ ClockTick

SpecSeq == InitSeq /\ [][NextSeq]_vars

(* ---- a change of strategy: a sequence dispenser exists under one
        strategy, an hset asks for another, gets are issued by the same
        client (one connection) or by other clients at the same time ---- *)
SwapCmds == {IncCmd(0, 0, 0, "", a) : a \in ValidPersistenceStrategies}

\* Number of get requests of a run with one client, with several clients.
MaxSoloGets == 4
MaxSwapGets == 2

InitSwap ==
  \E in \in SwapCmds :
    \/ InitCreated(TRUE, FALSE, Limits(1, MaxSoloGets, 1, 0), in.cfg, TRUE)
    \/ InitCreated(TRUE, FALSE, Limits(MaxConns, MaxSwapGets, 1, 0), in.cfg, TRUE)

NextSwap ==
  \/ \E c \in Conns, in \in SwapCmds : HSetStart(c, in)
  \/ \E c \in Conns : HSetGetCur(c)
  \/ \E c \in Conns : HSetCreate(c)
  \/ \E c \in Conns : HSetShutdown(c)
  \/ \E c \in Conns : HSetSwap(c)
  \/ \E c \in Conns : HSetReadCur(c)
  \/ \E c \in Conns : HSetSave(c)
  \/ \E c \in Conns : GetStart(c)
  \/ \E c \in Conns : GetNextBasic(c)
  \/ \E c \in Conns : GetNextSegment(c)
  \/ \E c \in Conns : GetNextAllocate(c)
  \/ \E c \in Conns : GetCur(c)
  \/ \E c \in Conns : GetSave(c)
  \/ \E i \in InstIds : PreloadRead(i)
  \/ \E i \in InstIds : PreloadCommit(i)
  \/ \E i \in InstIds : CheckpointRead(i)
  \/ \E i \in InstIds : CheckpointWrite(i)

SpecSwap == InitSwap /\ [][NextSwap]_vars

(* ---- one process life, concurrent callers of a basic dispenser (the
        memory and elegant_close strategies): the factory has built the
        dispenser, the connections issue gets.  Some dispensers have been
        in use for a while: a random one of length 2 that has issued 71
        numbers, a snowflake one that has issued 4095 identifiers in the
        current millisecond. ---- *)
\* Number of get requests of such a run.
MaxBasicGets == 4

\* sequence from 0 by 1 and from 3 by 2; fixed width 1 from 8 by 1 and from
\* 7 by 2; fixed width 2 from 9 by 1; random of length 1 and 2; snowflake
BasicCfgs(a) ==
  {IncCmd(0, 0, 0, "", a).cfg, IncCmd(0, 3, 2, "", a).cfg,
   IncCmd(1, 8, 0, "", a).cfg, IncCmd(1, 7, 2, "", a).cfg,
   IncCmd(2, 9, 0, "", a).cfg,
   [ZeroConfig EXCEPT !.Type = TypeNumericRandom, !.Length = 1, !.AutoDisk = a],
   [ZeroConfig EXCEPT !.Type = TypeNumericRandom, !.Length = 2, !.AutoDisk = a],
   [ZeroConfig EXCEPT !.Type = TypeSnowflake, !.MachineID = 1, !.AutoDisk = a]}

\* the dispenser CreateDispenser(cfg) returns, fresh or after some use
BasicStarts(a) ==
  LET New(cfg) == CreateDispenser(cfg, NewFileStorage(NoEntry, TRUE), TRUE).d
  IN {New(cfg) : cfg \in BasicCfgs(a)}
     \cup {[New(cfg) EXCEPT !.used = {FormatFixed(2, n) : n \in 12..82},
                            !.generated = 71] :
             cfg \in {c \in BasicCfgs(a) : c.Type = TypeNumericRandom /\ c.Length = 2}}
     \cup {[New(cfg) EXCEPT !.seqCounter = SeqMask - 1, !.lastTimestamp = 0,
                            !.generated = SeqMask] :
             cfg \in {c \in BasicCfgs(a) : c.Type = TypeSnowflake}}

\* the state in which dispenser d is registered and nothing is stored
InitHolding(n, d) ==
  /\ up = TRUE
  /\ epoch = 0
  /\ fs = NewFileStorage(NoEntry, TRUE)
  /\ insts = [i \in InstIds |-> IF i = 1 THEN d ELSE NoInst]
  /\ nInst = 1
  /\ reg = 1
  /\ conns = [c \in Conns |-> IdleConn]
  /\ lim = n
  /\ started = [get |-> 0, hset |-> 0, del |-> 0]
  /\ pp = IdlePP
  /\ out = <<>>
  /\ hout = NoHSets
  /\ hooked = [e \in 0..(MaxCrash + 1) |-> -1]
  /\ clock = 0
  /\ mayFail = FALSE
  /\ boot = NoBoot
  /\ stop = NoStop

InitBasic ==
  \E a \in {StrategyMemory, StrategyElegantClose} :
    \E d \in BasicStarts(a) :
      InitHolding(Limits(MaxConns, MaxBasicGets, 0, 0), d)

NextBasic ==
  \/ \E c \in Conns : GetStart(c)
  \/ \E c \in Conns : GetNextBasic(c)
  \/ \E c \in Conns : GetCur(c)
  \/ \E c \in Conns : GetSave(c)
  \/ ClockTick

SpecBasic == InitBasic /\ [][NextBasic]_vars

(* ---- the life of a name, one client: hset creates a random or a
        sequence dispenser under some strategy, the client issues gets,
        changes the strategy, deletes the name; the prefetch goroutines and
        the checkpoint tickers of the dispensers run ---- *)
\* Number of get requests of such a run.
MaxNameGets == 3
\* Number of del requests of such a run.
MaxDels == 1

NameCmds ==
  {IncCmd(0, 0, 0, "", a) : a \in ValidPersistenceStrategies}
  \cup {MkCmd([ZeroConfig EXCEPT !.Type = TypeNumericRandom, !.Length = 1,
                 !.AutoDisk = a]) : a \in ValidPersistenceStrategies}

InitNames ==
  InitWith(TRUE, FALSE, [Limits(1, MaxNameGets, MaxHSets, 0) EXCEPT !.dels = MaxDels])

NextNames ==
  \/ \E c \in Conns, in \in NameCmds : HSetStart(c, in)
  \/ \E c \in Conns : HSetGetCur(c)
  \/ \E c \in Conns : HSetCreate(c)
  \/ \E c \in Conns : HSetShutdown(c)
  \/ \E c \in Conns : HSetSwap(c)
  \/ \E c \in Conns : HSetReadCur(c)
  \/ \E c \in Conns : HSetSave(c)
  \/ \E c \in Conns : GetStart(c)
  \/ \E c \in Conns : GetNextBasic(c)
  \/ \E c \in Conns : GetNextSegment(c)
  \/ \E c \in Conns : GetNextAllocate(c)
  \/ \E c \in Conns : GetCur(c)
  \/ \E c \in Conns : GetSave(c)
  \/ \E c \in Conns : DelStart(c)
  \/ \E c \in Conns : DelSave(c)
  \/ \E i \in InstIds : PreloadRead(i)
  \/ \E i \in InstIds : PreloadCommit(i)
  \/ \E i \in InstIds : CheckpointRead(i)
  \/ \E i \in InstIds : CheckpointWrite(i)

SpecNames == InitNames /\ [][NextNames]_vars

(* ---- shutdown and restart, one client: a sequence dispenser exists
        under one of the five strategies, the client issues gets, the
        background tasks run, the server is told to stop, the process
        ends (after Stop has returned, or before) and is started again ---- *)
\* Number of get requests of such a run.
MaxStopGets == 4

InitStop ==
  \E in \in SwapCmds :
    InitCreated(TRUE, FALSE,
                [Limits(1, MaxStopGets, 0, MaxCrash) EXCEPT !.auto = in.cfg.AutoDisk],
                in.cfg, TRUE)

NextStop ==
  \/ \E c \in Conns : GetStart(c)
  \/ \E c \in Conns : GetNextBasic(c)
  \/ \E c \in Conns : GetNextSegment(c)
  \/ \E c \in Conns : GetNextAllocate(c)
  \/ \E c \in Conns : GetCur(c)
  \/ \E c \in Conns : GetSave(c)
  \/ \E i \in InstIds : PreloadRead(i)
  \/ \E i \in InstIds : PreloadCommit(i)
  \/ \E i \in InstIds : CheckpointRead(i)
  \/ \E i \in InstIds : CheckpointWrite(i)
  \/ AutoSave
  \/ PersistRead
  \/ PersistSave
  \/ StopBegin
  \/ StopShutdown
  \/ StopSave
  \/ StopPersist
  \/ Exit
  \/ Restart

SpecStop == InitStop /\ [][NextStop]_vars

(* ---- the server with a pre-base dispenser and one crash: the dispenser
        is created by an hset, the client issues gets, prefetches and the
        saves of the storage run, the process is killed and started
        again ---- *)
\* Number of get requests of such a run.
MaxCrashGets == 4

InitCrash ==
  InitCreated(TRUE, FALSE,
              [Limits(1, MaxCrashGets, 0, MaxCrash) EXCEPT !.auto = StrategyPreBase],
              IncCmd(0, 0, 0, "", StrategyPreBase).cfg, TRUE)

NextCrash ==
  \/ \E c \in Conns : GetStart(c)
  \/ \E c \in Conns : GetNextSegment(c)
  \/ \E c \in Conns : GetNextAllocate(c)
  \/ \E i \in InstIds : PreloadRead(i)
  \/ \E i \in InstIds : PreloadCommit(i)
  \/ AutoSave
  \/ PersistRead
  \/ PersistSave
  \/ Crash
  \/ Restart

SpecCrash == InitCrash /\ [][NextCrash]_vars

(* ---- the storage on its own: a client saves, deletes and flushes
        entries of one name, the auto-save loop runs, writes may fail, the
        process is killed and the storage is opened again ---- *)
\* Largest position saved in such a run.
MaxPos == 2

StoreCfgs ==
  {ZeroConfig,
   IncCmd(0, 0, 0, "", StrategyMemory).cfg,
   IncCmd(1, 7, 2, IncrModeFixed, StrategyPreBase).cfg,
   [ZeroConfig EXCEPT !.Type = TypeSnowflake, !.MachineID = 1,
                      !.AutoDisk = StrategyElegantClose]}

InitStore ==
  \E auto \in BOOLEAN, fail \in BOOLEAN :
    InitWith(auto, fail, Limits(0, 0, 0, MaxCrash))

\* fs.Save(name, cfg, current)
StoreSave(cfg, current) ==
  /\ up
  /\ \E ok \in DiskOutcomes : fs' = Save(fs, cfg, current, ok).fs
  /\ UNCHANGED <<up, epoch, insts, nInst, reg, conns, lim, started, pp, out,
                 hout, hooked, clock, mayFail, stop, boot>>

\* fs.Delete(name)
StoreDelete ==
  /\ up
  /\ \E ok \in DiskOutcomes : fs' = Delete(fs, ok).fs
  /\ UNCHANGED <<up, epoch, insts, nInst, reg, conns, lim, started, pp, out,
                 hout, hooked, clock, mayFail, stop, boot>>

\* fs.Flush()
StoreFlush ==
  /\ up
  /\ \E ok \in DiskOutcomes : fs' = Flush(fs, ok).fs
  /\ UNCHANGED <<up, epoch, insts, nInst, reg, conns, lim, started, pp, out,
                 hout, hooked, clock, mayFail, stop, boot>>

\* NewFileStorage in a new process: the map is read from the file (the
\* history field is carried over the start-up when the Save was flushed; a
\* Save the killed process had not flushed is no longer followed by one)
StoreOpen ==
  /\ ~up
  /\ up' = TRUE
  /\ epoch' = epoch + 1
  /\ fs' = [NewFileStorage(fs.disk, fs.autoSave)
              EXCEPT !.hist = IF fs.hist.flushed THEN fs.hist ELSE NoHist]
  /\ UNCHANGED <<insts, nInst, reg, conns, lim, started, pp, out, hout,
                 hooked, clock, mayFail, stop, boot>>

NextStore ==
  \/ \E cfg \in StoreCfgs, current \in 0..MaxPos : StoreSave(cfg, current)
  \/ StoreDelete
  \/ StoreFlush
  \/ AutoSave
  \/ Crash
  \/ StoreOpen

SpecStore == InitStore /\ [][NextStore]_vars

(* ---- an elegant_close dispenser in a server whose storage writes the
        file on every Save (as the handler tests build it), and whose
        writes may fail: clients issue gets ---- *)
\* Number of get requests of such a run.
MaxEagerGets == 3

InitEager ==
  \E cfg \in {IncCmd(0, 0, 0, "", StrategyElegantClose).cfg,
               IncCmd(1, 7, 2, "", StrategyElegantClose).cfg} :
    InitCreated(FALSE, TRUE, Limits(MaxConns, MaxEagerGets, 0, 0), cfg, TRUE)

NextEager ==
  \/ \E c \in Conns : GetStart(c)
  \/ \E c \in Conns : GetNextBasic(c)
  \/ \E c \in Conns : GetCur(c)
  \/ \E c \in Conns : GetSave(c)

SpecEager == InitEager /\ [][NextEager]_vars

(* ---- fixed-width segment dispensers near the end of their range: an
        hset creates a dispenser of width 1 that starts at 7 or at 9, a
        client issues gets, prefetches and checkpoints run ---- *)
\* Number of get requests of such a run.
MaxCapGets == 3

CapCmds ==
  {IncCmd(1, s, 1, IncrModeFixed, a) :
     s \in {7, 9}, a \in {StrategyPreBase, StrategyPreCheckpoint}}

InitCap == InitWith(TRUE, FALSE, Limits(1, MaxCapGets, 1, 0))

NextCap ==
  \/ \E c \in Conns, in \in CapCmds : HSetStart(c, in)
  \/ \E c \in Conns : HSetReadCur(c)
  \/ \E c \in Conns : HSetSave(c)
  \/ \E c \in Conns : GetStart(c)
  \/ \E c \in Conns : GetNextSegment(c)
  \/ \E c \in Conns : GetNextAllocate(c)
  \/ \E i \in InstIds : PreloadRead(i)
  \/ \E i \in InstIds : PreloadCommit(i)
  \/ \E i \in InstIds : CheckpointRead(i)
  \/ \E i \in InstIds : CheckpointWrite(i)

SpecCap == InitCap /\ [][NextCap]_vars

(* ---- a snowflake dispenser under a wall clock that can be set back:
        clients issue gets while milliseconds pass and the clock is
        corrected ---- *)
\* Number of get requests of such a run.
MaxClockGets == 3

InitClock ==
  \E a \in {StrategyMemory, StrategyElegantClose} :
    \E cfg \in {c \in BasicCfgs(a) : c.Type = TypeSnowflake} :
      InitHolding(Limits(MaxConns, MaxClockGets, 0, 0),
                  CreateDispenser(cfg, NewFileStorage(NoEntry, TRUE), TRUE).d)

NextClock ==
  \/ \E c \in Conns : GetStart(c)
  \/ \E c \in Conns : GetNextBasic(c)
  \/ ClockTick
  \/ ClockBack

SpecClock == InitClock /\ [][NextClock]_vars

(* ---- snowflake dispensers of several machine and datacenter ids, the
        smallest and the largest included: clients issue gets while
        milliseconds pass ---- *)
\* Number of get requests of such a run.
MaxFlakeGets == 3

FlakeCfgs ==
  {[ZeroConfig EXCEPT !.Type = TypeSnowflake, !.MachineID = m,
                      !.DatacenterID = dc, !.AutoDisk = StrategyMemory] :
     m \in {0, 1, 31}, dc \in {0, 31}}

InitFlake ==
  \E cfg \in FlakeCfgs :
    InitHolding(Limits(MaxConns, MaxFlakeGets, 0, 0),
                CreateDispenser(cfg, NewFileStorage(NoEntry, TRUE), TRUE).d)

NextFlake ==
  \/ \E c \in Conns : GetStart(c)
  \/ \E c \in Conns : GetNextBasic(c)
  \/ ClockTick

SpecFlake == InitFlake /\ [][NextFlake]_vars

(* ---- one configuration under each of the five strategies: a
        numeric-monotonic dispenser is created by hset and one client
        issues gets one after another, the prefetch tasks of the segment
        dispensers running in between ---- *)
\* Number of get requests of such a run.
MaxAgreeGets == 3

AgreeCfgs(a) ==
  {IncCmd(0, 0, 0, "", a).cfg, IncCmd(1, 7, 1, "", a).cfg,
   IncCmd(2, 8, 1, "", a).cfg, IncCmd(1, 7, 1, IncrModeFixed, a).cfg}

InitAgree ==
  \E a \in ValidPersistenceStrategies :
    \E cfg \in AgreeCfgs(a) :
      InitCreated(TRUE, FALSE, Limits(1, MaxAgreeGets, 0, 0), cfg, TRUE)

NextAgree ==
  \/ \E c \in Conns : GetStart(c)
  \/ \E c \in Conns : GetNextBasic(c)
  \/ \E c \in Conns : GetNextSegment(c)
  \/ \E c \in Conns : GetNextAllocate(c)
  \/ \E c \in Conns : GetCur(c)
  \/ \E c \in Conns : GetSave(c)
  \/ \E i \in InstIds : PreloadRead(i)
  \/ \E i \in InstIds : PreloadCommit(i)

SpecAgree == InitAgree /\ [][NextAgree]_vars

(* ---- the creation of a dispenser on a storage that writes the file on
        every save (NewFileStorage(dir, false)) and whose writes can fail:
        one hset with a valid, an invalid or an already exhausted
        configuration under each strategy, then gets, with the prefetch
        and checkpoint tasks of whatever dispenser exists ---- *)
\* Number of get requests of such a run.
MaxCreateGets == 3

CreateCmds ==
  {IncCmd(l, s, 1, m, a) :
     l \in {0, 1}, s \in {0, 9, 10}, m \in {"", IncrModeFixed},
     a \in ValidPersistenceStrategies}

InitCreate == InitWith(FALSE, TRUE, Limits(1, MaxCreateGets, 1, 0))

NextCreate ==
  \/ \E c \in Conns, in \in CreateCmds : HSetStart(c, in)
  \/ \E c \in Conns : HSetReadCur(c)
  \/ \E c \in Conns : HSetSave(c)
  \/ \E c \in Conns : GetStart(c)
  \/ \E c \in Conns : GetNextBasic(c)
  \/ \E c \in Conns : GetNextSegment(c)
  \/ \E c \in Conns : GetNextAllocate(c)
  \/ \E c \in Conns : GetCur(c)
  \/ \E c \in Conns : GetSave(c)
  \/ \E i \in InstIds : PreloadRead(i)
  \/ \E i \in InstIds : PreloadCommit(i)
  \/ \E i \in InstIds : CheckpointRead(i)
  \/ \E i \in InstIds : CheckpointWrite(i)

SpecCreate == InitCreate /\ [][NextCreate]_vars

(* ------------------------------ claims -------------------------------- *)
\* a get that was answered with an identifier of a numeric-monotonic dispenser
Served(o) == o.err = OK /\ o.cfg.Type = TypeNumericIncremental

\* C1: under pre-checkpoint and pre_close, no identifier returned by a get
\* before the crash is returned again by a get after the restart
C1_NoRepeatAcrossCrash ==
  \A i \in DOMAIN out, j \in DOMAIN out :
    ( /\ Served(out[i]) /\ Served(out[j])
      /\ out[i].epoch < out[j].epoch
      /\ out[i].cfg.AutoDisk \in {StrategyPreCheckpoint, StrategyPreClose}
      /\ out[j].cfg.AutoDisk = out[i].cfg.AutoDisk )
    => out[i].id # out[j].id

\* C2: after start-up has loaded a numeric-monotonic entry, the restored
\* dispenser's live current equals the saved position, and no get after the
\* restart returns a value below the saved position
C2_RestoredAtSaved ==
  /\ ( /\ up /\ epoch >= 1 /\ boot.present /\ reg # 0
       /\ insts[reg].config.Type = TypeNumericIncremental
       /\ started.get = boot.gets /\ started.hset = hout.n )
     => insts[reg].current = boot.Current
  /\ \A j \in DOMAIN out :
       (Served(out[j]) /\ out[j].epoch = epoch /\ epoch >= 1 /\ boot.present)
       => out[j].num >= boot.Current

\* C3: once a dispenser's persistence hook has returned success for a
\* position p, no get after a later crash and start-up returns a value below p
C3_NeverBelowHooked ==
  \A j \in DOMAIN out : \A e \in DOMAIN hooked :
    (Served(out[j]) /\ e < out[j].epoch /\ hooked[e] >= 0)
    => out[j].num >= hooked[e]

\* the gets answered before the crash by an elegant_close dispenser
ElegantServed ==
  {i \in DOMAIN out : /\ Served(out[i]) /\ out[i].epoch = 0
                      /\ out[i].cfg.AutoDisk = StrategyElegantClose}

\* C6: under elegant_close, after k answered gets, a kill (no get in
\* progress) and a restart, the next get returns starting + k * step
C6_ElegantResume ==
  \A j \in DOMAIN out :
    ( /\ out[j].epoch = 1 /\ \A i \in 1..(j - 1) : out[i].epoch = 0
      /\ ElegantServed # {} /\ ~boot.inflight )
    => LET c == out[CHOOSE i \in ElegantServed : TRUE].cfg
       IN /\ out[j].err = OK
          /\ out[j].num = c.Starting + Cardinality(ElegantServed) * c.Step

\* no request is in progress
Quiet == \A c \in Conns : conns[c].cmd = "none"

\* a get answered by a segment dispenser
SegServed(o) ==
  /\ Served(o)
  /\ o.cfg.AutoDisk \in {StrategyPreBase, StrategyPreCheckpoint, StrategyPreClose}

\* C4: sequence-mode segment dispenser, no restart, the hook always
\* succeeding: the values returned by n concurrent gets are pairwise
\* distinct and are exactly starting, starting + step, ...,
\* starting + (n - 1) * step
C4_ExactSequence ==
  ( /\ Quiet /\ ~mayFail /\ epoch = 0 /\ out # <<>>
    /\ \A j \in DOMAIN out :
         SegServed(out[j]) /\ out[j].cfg.IncrMode = IncrModeSequence )
  => LET c == out[1].cfg
     IN /\ \A i \in DOMAIN out, j \in DOMAIN out :
             i # j => out[i].num # out[j].num
        /\ {out[j].num : j \in DOMAIN out}
             = {c.Starting + k * c.Step : k \in 0..(Len(out) - 1)}

\* C5 as stated: every value v a segment dispenser returns was preceded by
\* a successful hook call with an argument e >= v + step
C5_HookedBeyondStep ==
  \A j \in DOMAIN out :
    SegServed(out[j]) => out[j].hook >= out[j].num + out[j].cfg.Step

\* C5, amended: every value v a segment dispenser returns was preceded by a
\* successful hook call with an argument e > v, and e >= v + step unless,
\* in fixed mode, the segment end was cut to e = 10^length
C5_HookedBeyond ==
  \A j \in DOMAIN out :
    SegServed(out[j]) =>
      /\ out[j].hook > out[j].num
      /\ \/ out[j].hook >= out[j].num + out[j].cfg.Step
         \/ /\ out[j].cfg.IncrMode = IncrModeFixed
            /\ out[j].hook = pow10(out[j].cfg.Length)

\* C5 witness: a value of a cut segment has been returned, its successor
\* lying beyond the hooked end, and a value of a prefetched segment as well
C5_Witness ==
  /\ \E j \in DOMAIN out :
       SegServed(out[j]) /\ out[j].hook < out[j].num + out[j].cfg.Step
  /\ \E j \in DOMAIN out :
       SegServed(out[j]) /\ out[j].hook >= out[j].num + out[j].cfg.Step
                         /\ out[j].num >= pow10(out[j].cfg.Length)

\* the configuration parsed from an hset differs from the existing one in
\* the type or in a field it gives (non-zero, non-empty)
Differs(cfg, ex) ==
  \/ cfg.Type # ex.Type
  \/ \E f \in {"Length", "Starting", "Step", "MachineID", "DatacenterID"} :
       cfg[f] # 0 /\ cfg[f] # ex[f]
  \/ \E f \in {"IncrMode", "Charset", "UUIDFormat"} :
       cfg[f] # "" /\ cfg[f] # ex[f]

\* this step is the start of handleHSet: one more hset has been started
HSetBegins == started'.hset = started.hset + 1

\* the command of that hset: the one answered at once, or the one now in
\* progress on a connection
BegunCmd ==
  IF hout'.n = hout.n + 1 /\ conns' = conns
  THEN hout'.last.in
  ELSE LET c == CHOOSE c \in Conns : conns[c].cmd = "none" /\ conns'[c].cmd = "hset"
       IN  conns'[c].in

\* C8: an hset on an existing dispenser that differs in the type or in a
\* given core field is answered with an error at once and changes nothing:
\* registry, instances (current, configuration, strategy) and storage
C8_RejectChangesNothing ==
  [][ (HSetBegins /\ reg # 0 /\ Differs(BegunCmd.cfg, insts[reg].config))
      => /\ hout'.n = hout.n + 1
         /\ hout'.last.err # OK
         /\ UNCHANGED <<insts, nInst, reg, fs, out, conns, hooked>> ]_vars

\* C8 witness: a get, a rejected change of a core field, and a get that
\* continues the sequence
C8_Witness ==
  /\ hout.last.kind = "core" /\ hout.last.err # OK /\ hout.last.gets = 1
  /\ Len(out) = 2 /\ Served(out[1]) /\ Served(out[2])
  /\ out[2].num = out[1].num + out[1].cfg.Step

\* C9: an hset identical to the preceding successful hset is answered with
\* the success reply at once and leaves registry, instances (current,
\* configuration, strategy) and storage unchanged
C9_IdenticalHSetIdempotent ==
  [][ ( /\ HSetBegins
        /\ hout.n >= 1 /\ hout.last.err = OK /\ hout.last.epoch = epoch
        /\ BegunCmd = hout.last.in )
      => /\ hout'.n = hout.n + 1
         /\ hout'.last.err = OK
         /\ hout'.last.n = hout.last.in.n
         /\ UNCHANGED <<insts, nInst, reg, fs, out, conns>> ]_vars

\* C9 witness: a creation, a get, the same hset again, and a get that
\* continues the sequence
C9_Witness ==
  /\ hout.n = 2 /\ hout.last.kind = "same" /\ hout.last.err = OK
  /\ hout.last.gets = 1
  /\ Len(out) = 2 /\ Served(out[1]) /\ Served(out[2])
  /\ out[2].num = out[1].num + out[1].cfg.Step

\* the position of the old dispenser when the hset that was answered last
\* began, in a run of one client: the value after the last one served
PositionAtHSet ==
  IF hout.last.gets = 0 THEN insts[reg].config.Starting
  ELSE out[hout.last.gets].num + insts[reg].config.Step

\* C7: after an hset that changes only the strategy of a numeric-monotonic
\* dispenser at position c, for every pair of strategies and every c, the
\* reported current is c and the next get returns c
C7_SwapKeepsPosition ==
  ( /\ lim.conns = 1 /\ hout.n = 1 /\ hout.last.kind = "swap"
    /\ hout.last.err = OK /\ reg # 0
    /\ \A j \in 1..hout.last.gets : Served(out[j]) )
  => /\ (Quiet /\ started.get = hout.last.gets)
          => GetCurrent(insts[reg]) = PositionAtHSet
     /\ Len(out) > hout.last.gets
          => /\ out[hout.last.gets + 1].err = OK
             /\ out[hout.last.gets + 1].num = PositionAtHSet

\* C10: with gets running concurrently with an hset that changes only the
\* strategy, no identifier is returned twice, every get is served by the
\* dispenser registered at the time it is served, and every value of the
\* new dispenser lies directly after the old one's
C10_AtomicSwap ==
  /\ \A i \in DOMAIN out, j \in DOMAIN out :
       (i # j /\ Served(out[i]) /\ Served(out[j])) => out[i].id # out[j].id
  /\ \A j \in DOMAIN out : ~out[j].stale
  /\ (Quiet /\ out # <<>> /\ \A j \in DOMAIN out : Served(out[j]))
       => {out[j].num : j \in DOMAIN out}
            = {out[1].cfg.Starting + k * out[1].cfg.Step : k \in 0..(Len(out) - 1)}
(* ---- basic dispensers ---- *)
RECURSIVE DecimalValue(_)
\* the number a sequence of decimal digits denotes
DecimalValue(ds) ==
  IF ds = <<>> THEN 0 ELSE 10 * DecimalValue(SubSeq(ds, 1, Len(ds) - 1)) + ds[Len(ds)]

\* a reply of a basic numeric-incremental dispenser
BasicIncr(o) ==
  o.inst # 0 /\ o.cfg.Type = TypeNumericIncremental
  /\ o.cfg.AutoDisk \in {StrategyMemory, StrategyElegantClose}

\* C11: under memory or elegant_close the successful Next calls of a
\* numeric-incremental dispenser return starting + i*step for i = 0, 1, ...
\* in the order in which they held the dispenser lock, each value once: the
\* call of rank g returns starting + (g-1)*step, as exactly length digits in
\* fixed mode and without leading zeros in sequence mode; in sequence mode
\* no call fails, and once no call is in progress the ranks answered are
\* 1..n without gaps
C11_LockOrderSequence ==
  /\ \A k \in 1..Len(out) :
       BasicIncr(out[k]) =>
         IF out[k].err = OK
           THEN /\ out[k].gen >= 1
                /\ out[k].num = out[k].cfg.Starting + (out[k].gen - 1) * out[k].cfg.Step
                /\ DecimalValue(out[k].id) = out[k].num
                /\ IF out[k].cfg.IncrMode = IncrModeFixed
                     THEN Len(out[k].id) = out[k].cfg.Length
                   ELSE out[k].id = <<0>> \/ out[k].id[1] # 0
                /\ \A j \in 1..Len(out) :
                     (j # k /\ out[j].err = OK) => out[j].gen # out[k].gen
         ELSE out[k].cfg.IncrMode = IncrModeFixed
  /\ (Quiet /\ reg # 0 /\ insts[reg].config.Type = TypeNumericIncremental)
       => {out[k].gen : k \in {j \in 1..Len(out) : out[j].err = OK}}
            = 1..Cardinality({j \in 1..Len(out) : out[j].err = OK})

\* C11 witness: three calls answered in fixed mode of length 2 from 9 by 1,
\* the first of them with a padded identifier
C11_Witness ==
  /\ Len(out) = 3
  /\ \A k \in 1..3 : BasicIncr(out[k]) /\ out[k].err = OK
  /\ \E k \in 1..3 : out[k].id = <<0, 9>>
  /\ \E k \in 1..3 : out[k].id = <<1, 1>>

\* C12: between the creation of a name and its deletion, a numeric-random
\* dispenser never returns the same string twice, whatever gets and changes
\* of strategy happen in between
C12_RandomNeverRepeats ==
  started.del = 0 =>
    \A j \in 1..Len(out), k \in 1..Len(out) :
      ( /\ j < k
        /\ out[j].err = OK /\ out[j].cfg.Type = TypeNumericRandom
        /\ out[k].err = OK /\ out[k].cfg.Type = TypeNumericRandom )
      => out[j].id # out[k].id

\* a reply of a basic numeric-random dispenser
BasicRandom(o) ==
  o.inst # 0 /\ o.cfg.Type = TypeNumericRandom
  /\ o.cfg.AutoDisk \in {StrategyMemory, StrategyElegantClose}

\* the size of the number space of length L
Space(L) == pow10(L) - pow10(L - 1)

\* how many identifiers the dispenser had issued when the call of reply o began
IssuedBefore(o) == IF o.err = OK THEN o.gen - 1 ELSE o.gen

\* C13 as stated: once ceil(0.8 * space) identifiers have been issued, the
\* next get fails (length 2: no 73rd identifier is issued)
C13_ExhaustedAtEighty ==
  \A k \in 1..Len(out) :
    (BasicRandom(out[k]) /\ IssuedBefore(out[k]) * 10 >= 8 * Space(out[k].cfg.Length))
    => out[k].err # OK

\* C13 amended: a get fails with exhausted exactly when more than 0.8 * space
\* identifiers have been issued
C13_ExhaustedPastEighty ==
  \A k \in 1..Len(out) :
    BasicRandom(out[k]) =>
      (out[k].err = ErrNumberExhausted
         <=> IssuedBefore(out[k]) * 10 > 8 * Space(out[k].cfg.Length))

\* C13 witness: length 2, the 73rd get has succeeded and the 74th has failed
C13_Witness ==
  \E j \in 1..Len(out), k \in 1..Len(out) :
    /\ BasicRandom(out[j]) /\ out[j].cfg.Length = 2
    /\ out[j].err = OK /\ out[j].gen = 73
    /\ out[k].err = ErrNumberExhausted /\ out[k].gen = 73

\* a successful reply of a snowflake dispenser
SnowflakeServed(o) == o.inst # 0 /\ o.cfg.Type = TypeSnowflake /\ o.err = OK

\* C14: with a clock that never goes back, the identifiers of a snowflake
\* dispenser grow in the order of issue, so any two differ and one issued in
\* a later millisecond exceeds every earlier one; two of the same
\* millisecond differ in the low 12 bits.  This includes the call that
\* finds the 4096 sequence numbers of its millisecond used up.
C14_SnowflakeDistinct ==
  \A j \in 1..Len(out), k \in 1..Len(out) :
    (j # k /\ SnowflakeServed(out[j]) /\ SnowflakeServed(out[k]))
    => /\ DecimalValue(out[j].id) # DecimalValue(out[k].id)
       /\ out[j].gen < out[k].gen
            => DecimalValue(out[j].id) < DecimalValue(out[k].id)
       /\ DecimalValue(out[j].id) \div 4194304 = DecimalValue(out[k].id) \div 4194304
            => DecimalValue(out[j].id) % 4096 # DecimalValue(out[k].id) % 4096

\* C14 witness: the 4096th identifier of millisecond 0 and, from the call
\* that waited, the first of millisecond 1
C14_Witness ==
  \E j \in 1..Len(out), k \in 1..Len(out) :
    /\ SnowflakeServed(out[j]) /\ SnowflakeServed(out[k])
    /\ out[j].gen = 4096 /\ out[j].num \div 4194304 = 0 /\ out[j].num % 4096 = 4095
    /\ out[k].gen = 4097 /\ out[k].num \div 4194304 = 1 /\ out[k].num % 4096 = 0

\* C15: in fixed mode with length L every identifier returned, under any
\* strategy and after any rollovers and prefetches, has exactly L
\* characters and a value of at most 10^L - 1
C15_FixedWidthKept ==
  \A k \in 1..Len(out) :
    (Served(out[k]) /\ out[k].cfg.IncrMode = IncrModeFixed)
    => /\ Len(out[k].id) = out[k].cfg.Length
       /\ DecimalValue(out[k].id) <= pow10(out[k].cfg.Length) - 1

\* a reply of a basic fixed-width dispenser with step 1
FixedByOne(o) ==
  BasicIncr(o) /\ o.cfg.IncrMode = IncrModeFixed /\ o.cfg.Step = 1

\* how many identifiers a fixed-width dispenser with step 1 has to give
Supply(cfg) == pow10(cfg.Length) - cfg.Starting

\* C16: a fixed-width dispenser of length L with step 1 under memory or
\* elegant_close issues every value up to 10^L - 1, the last one as the
\* padded string of 10^L - 1; every later get fails with exhausted and
\* leaves current (10^L) and the generated counter (10^L - starting) as
\* they were
C16_ExhaustedAtCap ==
  /\ \A k \in 1..Len(out) :
       FixedByOne(out[k]) =>
         IF out[k].err = OK
           THEN /\ out[k].gen <= Supply(out[k].cfg)
                /\ out[k].gen = Supply(out[k].cfg)
                     => /\ Len(out[k].id) = out[k].cfg.Length
                        /\ DecimalValue(out[k].id) = pow10(out[k].cfg.Length) - 1
         ELSE /\ out[k].err = ErrNumberExhausted
              /\ out[k].gen = Supply(out[k].cfg)
  /\ \A i \in InstIds :
       ( /\ insts[i].impl = "basic"
         /\ insts[i].config.Type = TypeNumericIncremental
         /\ insts[i].config.IncrMode = IncrModeFixed /\ insts[i].config.Step = 1 )
       => /\ insts[i].current <= pow10(insts[i].config.Length)
          /\ insts[i].generated <= Supply(insts[i].config)
          /\ insts[i].current = insts[i].config.Starting + insts[i].generated

\* C16 witness: length 1 from 8: 8 and 9 have been issued and two later
\* gets have failed
C16_Witness ==
  /\ Len(out) = 4
  /\ \A k \in 1..4 : FixedByOne(out[k]) /\ out[k].cfg.Length = 1
  /\ \E k \in 1..4 : out[k].err = OK /\ out[k].id = <<9>>
  /\ Cardinality({k \in 1..4 : out[k].err = ErrNumberExhausted}) = 2
  /\ insts[1].current = 10 /\ insts[1].generated = 2

\* C17: once del has replied 1 (and until the name is set again) the name
\* is not registered, gets on it fail as unknown, and the snapshot has no
\* entry for it: no checkpoint tick, prefetch or save of the deleted
\* dispenser brings the entry back
C17_DelRemovesForGood ==
  ( /\ hout.n >= 1 /\ hout.last.kind = "del"
    /\ hout.last.err = OK /\ hout.last.n = 1
    /\ \A c \in Conns : conns[c].cmd # "hset" )
  => /\ reg = 0
     /\ ~fs.data.present
     /\ \A k \in 1..Len(out) :
          k > hout.last.gets => out[k].err = "ERR dispenser not found"

\* C18: nothing writes the configuration or the position of a memory
\* dispenser to the snapshot (neither to the storage's map nor to the
\* file), and no start-up restores one at a position past its starting
\* value
C18_MemoryNeverStored ==
  /\ ~(fs.data.present /\ fs.data.Config.AutoDisk = StrategyMemory)
  /\ ~(fs.disk.present /\ fs.disk.Config.AutoDisk = StrategyMemory)
  /\ \A k \in 1..Len(out) :
       ( /\ out[k].epoch >= 1 /\ Served(out[k])
         /\ out[k].cfg.AutoDisk = StrategyMemory )
       => out[k].num = out[k].cfg.Starting + (out[k].gen - 1) * out[k].cfg.Step

\* the gets served before the last start-up
ServedBefore == {j \in 1..Len(out) : j <= boot.gets /\ Served(out[j])}

\* C19: under pre_close, after k gets, a shutdown in which Stop ran to its
\* end and a restart, the first get returns starting + k*step
C19_PreCloseResume ==
  ( /\ lim.auto = StrategyPreClose
    /\ boot.graceful /\ Len(out) > boot.gets )
  => LET o == out[boot.gets + 1]
     IN /\ o.err = OK
        /\ o.num = o.cfg.Starting + Cardinality(ServedBefore) * o.cfg.Step

\* C20: under pre-base, when the process is killed after k gets were
\* answered (none in flight) and the name is restored from the file, the
\* first get of the new life returns v with
\* starting + k*step <= v <= starting + (k + segment_size)*step
C20_PreBaseWasteBounded ==
  ( /\ epoch >= 1 /\ boot.present /\ ~boot.inflight
    /\ Len(out) > boot.gets
    /\ out[boot.gets + 1].cfg.AutoDisk = StrategyPreBase )
  => LET o == out[boot.gets + 1]
         k == Cardinality(ServedBefore)
     IN /\ o.err = OK
        /\ o.cfg.Starting + k * o.cfg.Step <= o.num
        /\ o.num <= o.cfg.Starting + (k + SegmentSize) * o.cfg.Step

\* C21: after a termination signal the process does not end before Stop
\* has waited for the commands in progress, shut the dispensers down and
\* saved and flushed the snapshot
C21_FlushBeforeExit ==
  (~up /\ stop.pc # "run") => stop.pc = "done"

\* C22: whatever the kind and the durability strategy of the configuration
\* an hset has accepted, a get served by that dispenser is answered with an
\* identifier, not with an error (no disk failure, space not used up)
C22_AcceptedKindIsServed ==
  \A k \in 1..Len(out) :
    out[k].inst # 0
    => /\ out[k].err = OK
       /\ out[k].cfg.Type = TypeNumericRandom => Len(out[k].id) = out[k].cfg.Length

\* C23: when a successful Save of a name has been followed by a successful
\* Flush and by no other Save or Delete of the name, the file holds that
\* entry: while the process runs, after it was killed, and after the
\* storage was opened again the map has exactly that configuration and
\* position; and a Flush with nothing dirty leaves the file as it is
C23_SaveFlushSurvives ==
  /\ fs.hist.flushed
     => /\ NewFileStorage(fs.disk, fs.autoSave).data = fs.hist.saved
        /\ up => fs.data = fs.hist.saved
  /\ (up /\ ~fs.dirty)
     => \A ok \in BOOLEAN : /\ Flush(fs, ok).err = OK
                            /\ Flush(fs, ok).fs.disk = fs.disk

\* a saved and flushed entry with zero and non-zero fields has been loaded
\* by the process started after a crash
C23_Witness ==
  /\ up /\ epoch >= 1 /\ fs.hist.flushed
  /\ fs.data = Entry(IncCmd(1, 7, 2, IncrModeFixed, StrategyPreBase).cfg, MaxPos)

\* C24: once GracefulShutdown of a checkpointing segment dispenser has
\* returned, the position last handed to the persistence hook, which is the
\* position the snapshot holds for the name, is the dispenser's current
\* position, and stays so: no checkpoint or prefetch writes after it
C24_ShutdownSaveIsLast ==
  ( /\ up /\ stop.pc \in {"persist", "done"}
    /\ reg # 0 /\ insts[reg].impl = "optimized" )
  => /\ fs.data.present
     /\ fs.data.Current = insts[reg].current

\* the get of connection c leaves the synchronous allocation of Next in
\* this step, and is answered
AllocEnds(c) ==
  /\ conns[c].pc = "alloc" /\ conns'[c].pc # "alloc"
  /\ Len(out') = Len(out) + 1

\* C25: when the persistence hook fails in the synchronous allocation of
\* Next, Next returns that error and leaves current, segmentEnd,
\* lastPersisted and the generated counter as they were; a Next whose
\* allocation succeeds returns the start of the segment the failed call
\* asked for, the unchanged segmentEnd
C25_FailedAllocationKeepsState ==
  [][ \A c \in Conns :
        AllocEnds(c)
        => LET i == conns[c].inst
               o == out'[Len(out')]
           IN /\ o.err \notin {OK, ErrNumberExhausted}
                 => /\ o.err = ErrDisk
                    /\ insts'[i] = [insts[i] EXCEPT !.muHeld = FALSE]
              /\ o.err = OK
                 => /\ o.num = insts[i].segmentEnd
                    /\ insts'[i].current = o.num + o.cfg.Step ]_vars

\* a get failed on the hook after 0 and 1 had been handed out, and the get
\* after it was answered with 2
C25_Witness ==
  \E k \in 1..(Len(out) - 1) :
    /\ out[k].err = ErrDisk /\ out[k + 1].err = OK
    /\ out[k].inst = out[k + 1].inst
    /\ out[k + 1].num = 2
    /\ \E j \in 1..(k - 1) : out[j].err = OK /\ out[j].num = 1

\* C26: under elegant_close, when the save that follows a successful Next
\* of a monotonic dispenser fails (the storage writes the file on every
\* Save, and the write is still owed afterwards), the get is answered with
\* an error and not with the identifier
C26_FailedSaveIsReported ==
  [][ \A c \in Conns :
        ( /\ conns[c].cmd = "get" /\ conns[c].pc = "save"
          /\ conns'[c].pc # "save"
          /\ ~fs.autoSave /\ fs'.dirty )
        => /\ Len(out') = Len(out) + 1
           /\ out'[Len(out')].err # OK ]_vars

\* the prefetch of instance i ends in this step with a failed hook call:
\* the storage writes the file on every Save and still owes the write
PrefetchFails(i) ==
  /\ insts[i].plActive /\ ~insts'[i].plActive
  /\ ~fs.autoSave /\ fs'.dirty

C28_CapIsHandedOut ==
  /\ \A k \in DOMAIN out :
       ( /\ out[k].err = ErrNumberExhausted
         /\ out[k].cfg.IncrMode = IncrModeFixed /\ out[k].cfg.Step = 1 )
       => \E j \in 1..(k - 1) :
            /\ out[j].err = OK /\ out[j].inst = out[k].inst
            /\ out[j].num = pow10(out[k].cfg.Length) - 1
  /\ ( /\ hout.n >= 1 /\ hout.last.kind # "del"
       /\ hout.last.in.cfg.IncrMode = IncrModeFixed
       /\ hout.last.in.cfg.Starting = pow10(hout.last.in.cfg.Length) - 1 )
     => hout.last.err = OK

\* C29: the shutdown of a pre-checkpoint dispenser calls the persistence
\* hook with no position: the step of Stop that ends the dispenser's
\* Shutdown leaves the snapshot and the hooked values as they were
C29_PreCheckpointShutdownSavesNothing ==
  [][ ( /\ lim.auto = StrategyPreCheckpoint
        /\ stop.pc = "gsave" /\ stop'.pc = "persist" )
      => UNCHANGED <<fs, hooked>> ]_vars

\* the millisecond a snowflake identifier was made for
StampOf(o) == o.num \div 4194304

\* C30: whatever the wall clock does, a snowflake dispenser issues no
\* identifier for a millisecond before the one of an identifier it issued
\* earlier, and its lastTimestamp is the millisecond of the last one issued
C30_NeverBehindLastTimestamp ==
  /\ \A j \in DOMAIN out, k \in DOMAIN out :
       ( /\ j < k /\ SnowflakeServed(out[j]) /\ SnowflakeServed(out[k])
         /\ out[j].inst = out[k].inst )
       => StampOf(out[j]) <= StampOf(out[k])
  /\ \A k \in DOMAIN out :
       (SnowflakeServed(out[k]) /\ insts[out[k].inst].impl = "basic")
       => StampOf(out[k]) <= insts[out[k].inst].lastTimestamp

\* C31: bits 12..16 of a snowflake identifier are the machine id the
\* dispenser was configured with, 0 included, bits 17..21 the datacenter
\* id, and bits 0..11 the number of identifiers issued before it in the
\* same millisecond
C31_SnowflakeFields ==
  \A k \in DOMAIN out :
    SnowflakeServed(out[k])
    => LET asked == insts[out[k].inst].hookCfg
       IN /\ (out[k].num \div 4096) % 32 = asked.MachineID
          /\ (out[k].num \div 131072) % 32 = asked.DatacenterID
          /\ out[k].num % 4096
               = Cardinality({j \in 1..(k - 1) : StampOf(out[j]) = StampOf(out[k])})

\* C32: once the graceful shutdown of a checkpointing segment dispenser
\* has returned, in a run without crash or restart, its wasted counter is 0
C32_NoWasteAfterShutdown ==
  ( /\ up /\ epoch = 0 /\ stop.pc \in {"persist", "done"}
    /\ reg # 0 /\ insts[reg].impl = "optimized" )
  => insts[reg].wasted = 0

\* C33: whenever a prepared next segment of a segment dispenser is marked
\* ready, its start is the end of the live segment
C33_PreparedStartsAtLiveEnd ==
  \A i \in InstIds :
    (i <= nInst /\ insts[i].impl \in {"segment", "optimized"} /\ insts[i].nextReady)
    => insts[i].nextStart = insts[i].segmentEnd

\* C34: under elegant_close, once every get on a numeric-monotonic
\* dispenser has returned, the position stored for the name is the
\* dispenser's current, and it is above every value handed out
C34_StoredIsCurrentWhenQuiet ==
  ( /\ Quiet /\ reg # 0
    /\ insts[reg].config.AutoDisk = StrategyElegantClose
    /\ insts[reg].config.Type = TypeNumericIncremental
    /\ \E k \in DOMAIN out : Served(out[k]) )
  => /\ fs.data.present
     /\ fs.data.Current = insts[reg].current
     /\ \A k \in DOMAIN out : Served(out[k]) => out[k].num < fs.data.Current

\* C35: startup does not change the saved position: the position stored
\* for the name when loadDispensers has returned is the position that was
\* on disk before startup, whatever the durability strategy
C35_StartupKeepsPosition ==
  [][ (~up /\ up' /\ fs.disk.present)
      => /\ fs'.data.present
         /\ fs'.data.Current = fs.disk.Current ]_vars

\* the replies of n gets, one after another, on the plain dispenser d
RECURSIVE MemoryReplies(_, _)
MemoryReplies(d, n) ==
  IF n = 0 THEN <<>>
  ELSE LET r == BasicNext(d, 0, 0, 1)
       IN <<[err |-> r.err, id |-> r.id]>> \o MemoryReplies(r.d, n - 1)

\* C36: for one accepted configuration and sequential gets without a
\* restart, a numeric-monotonic dispenser gives, under every durability
\* strategy, the replies (identifier strings and exhausted outcome) that
\* it gives under the memory strategy
C36_StrategiesAgree ==
  LET asked == [insts[1].hookCfg EXCEPT !.AutoDisk = StrategyMemory]
      ref == MemoryReplies(NewDispenser(asked).d, Len(out))
  IN \A k \in DOMAIN out :
       /\ out[k].err = ref[k].err
       /\ out[k].err = OK => out[k].id = ref[k].id

\* C37: an hset on an existing dispenser that repeats its type and core
\* fields and leaves auto_disk out changes nothing, whatever the existing
\* strategy: every step of its handler leaves the registered instance, its
\* strategy and current, and the snapshot as they were
C37_OmittedAutoDiskKeepsAll ==
  [][ \A c \in Conns :
        LET h == IF conns[c].cmd = "hset" THEN conns[c] ELSE conns'[c]
        IN ( /\ conns'[c] # conns[c]
             /\ h.cmd = "hset" /\ h.kind # "create"
             /\ h.in.cfg.AutoDisk = "" )
           => /\ reg' = reg
              /\ insts'[reg] = insts[reg]
              /\ fs' = fs ]_vars

\* C38: when an hset that would create a dispenser is answered with an
\* error, no dispenser of that name is registered, no background task of
\* one is running and the snapshot has no entry for the name
C38_FailedCreateLeavesNothing ==
  [][ ( /\ hout'.n = hout.n + 1
        /\ hout'.last.kind = "create" /\ hout'.last.err # OK )
      => /\ reg' = 0
         /\ ~fs'.data.present
         /\ \A i \in InstIds : insts'[i].ticks # "run" /\ insts'[i].spawned = 0 ]_vars

=============================================================================
